---- MODULE Spec2Model ----
(***************************************************************************)
(* Model of the task server of deno-shoelace-htmx (server.ts): the        *)
(* TaskService repository and the API endpoint handlers that call it.     *)
(*                                                                         *)
(* An object whose fields may be absent (the data argument of createTask  *)
(* and updateTask, a form body) is a function whose DOMAIN is the set of  *)
(* the fields that are present.                                           *)
(***************************************************************************)
EXTENDS Integers, Sequences, FiniteSets, TLC

(***************************************************************************)
(* Bounds of the model.                                                    *)
(***************************************************************************)
\* number of operations / requests in one behaviour
MaxSteps == 2
\* number of requests in one behaviour of the server behind handleRequest
MaxRequests == 3
\* number of requests that arrive in one behaviour of concurrent requests
MaxArrivals == 2

(***************************************************************************)
(* Program constants.                                                      *)
(***************************************************************************)
\* private nextId = 4
FirstNextId == 4
\* Date.now() - 86400000 in seedInitialTasks
DayMs == 86400000
\* the clock value at process start (kept one day after 0 so that the
\* createdAt of seed task "2" is not negative)
StartTime == DayMs

Low == <<"l", "o", "w">>
Medium == <<"m", "e", "d", "i", "u", "m">>
High == <<"h", "i", "g", "h">>

TASK_PRIORITIES == <<Low, Medium, High>>

(***************************************************************************)
(* Strings.  A string is a sequence of pieces; a piece is one character,  *)
(* or a run of characters of a literal of the program that the code never *)
(* splits (the text of a message, the fixed part of a template).          *)
(***************************************************************************)
\* the characters String.prototype.trim removes (those the model uses)
WhiteSpace == {" ", "\t", "\n", "\r"}

RECURSIVE TrimStart(_)
TrimStart(s) ==
    IF s # <<>> /\ Head(s) \in WhiteSpace THEN TrimStart(Tail(s)) ELSE s

RECURSIVE TrimEnd(_)
TrimEnd(s) ==
    IF s # <<>> /\ s[Len(s)] \in WhiteSpace
    THEN TrimEnd(SubSeq(s, 1, Len(s) - 1))
    ELSE s

\* String.prototype.trim
Trim(s) == TrimEnd(TrimStart(s))

DigitChars == <<"0", "1", "2", "3", "4", "5", "6", "7", "8", "9">>

\* Number.prototype.toString of a non-negative integer
RECURSIVE NumberToString(_)
NumberToString(n) ==
    IF n < 10
    THEN <<DigitChars[n + 1]>>
    ELSE Append(NumberToString(n \div 10), DigitChars[(n % 10) + 1])

\* Array.prototype.includes
Includes(arr, v) == \E i \in 1..Len(arr) : arr[i] = v

\* Array.prototype.join
RECURSIVE Join(_, _)
Join(arr, sep) ==
    IF arr = <<>> THEN <<>>
    ELSE IF Len(arr) = 1 THEN arr[1]
    ELSE arr[1] \o sep \o Join(Tail(arr), sep)

\* String.prototype.startsWith, for a prefix that is one literal piece
StartsWith(s, prefix) == s # <<>> /\ s[1] = prefix

InvalidPrefix == "Invalid task data:"

TitleRequiredMessage ==
    <<InvalidPrefix, " Title is required and cannot be empty.">>
TitleEmptyMessage == <<InvalidPrefix, " Title cannot be empty.">>
PriorityMessage ==
    <<InvalidPrefix, " Priority must be one of ">>
        \o Join(TASK_PRIORITIES, <<", ">>) \o <<".">>
DescriptionMessage == <<InvalidPrefix, " Description must be a string.">>

(***************************************************************************)
(* Objects with optional fields.                                           *)
(***************************************************************************)
NoFields == <<>>

Has(obj, field) == field \in DOMAIN obj

\* the object that has the field exactly when vs is a one-element set
OptField(field, vs) ==
    IF vs = {} THEN NoFields ELSE field :> (CHOOSE v \in vs : TRUE)

\* the sets that hold at most one element of S
Optional(S) == {{}} \cup {{v} : v \in S}

MkData(ts, ds, ps) ==
    OptField("title", ts) @@ OptField("description", ds)
        @@ OptField("priority", ps)

(***************************************************************************)
(* The store: a Map<TaskId, Task>, kept as the sequence of its values in   *)
(* insertion order (the order Map.prototype.values iterates in).           *)
(***************************************************************************)
StoredIds(store) == {store[i].id : i \in 1..Len(store)}

\* Map.prototype.has
MapHas(store, id) == id \in StoredIds(store)

IndexOf(store, id) == CHOOSE i \in 1..Len(store) : store[i].id = id

Undefined == [undefined |-> TRUE]

\* Map.prototype.get
MapGet(store, id) ==
    IF MapHas(store, id) THEN store[IndexOf(store, id)] ELSE Undefined

\* Map.prototype.set: an existing key keeps its position, a new key is
\* appended
MapSet(store, id, task) ==
    IF MapHas(store, id)
    THEN [store EXCEPT ![IndexOf(store, id)] = task]
    ELSE Append(store, task)

\* a bug: the entry is removed together with those inserted after it
MapDeleteFromKey(store, id) ==
    IF MapHas(store, id)
    THEN SubSeq(store, 1, IndexOf(store, id) - 1)
    ELSE store

\* Map.prototype.delete: the remaining entries keep their order
MapDelete(store, id) ==
    IF MapHas(store, id)
    THEN LET k == IndexOf(store, id)
         IN  SubSeq(store, 1, k - 1) \o SubSeq(store, k + 1, Len(store))
    ELSE store

(***************************************************************************)
(* TaskService.                                                            *)
(***************************************************************************)
\* a bug: the counter is advanced before the validation throws
ThrowAfterIncrement(message, store, nid) ==
    [threw |-> TRUE, message |-> message, store |-> store, nextId |-> nid + 1]

\* throw new Error(message): the repository is left as it is
Throw(message, store, nid) ==
    [threw |-> TRUE, message |-> message, store |-> store, nextId |-> nid]

\* a bug: the id is derived from the size of the store, as the earlier
\* revision of the server did
NewIdFromSize(store, nid, opt) ==
    IF Has(opt, "id") /\ opt.id # <<>> THEN opt.id
    ELSE NumberToString(Len(store) + 1)

\* newId = id || (this.nextId++).toString()
NewId(store, nid, opt) ==
    IF Has(opt, "id") /\ opt.id # <<>> THEN opt.id ELSE NumberToString(nid)

\* a bug: the counter is read but not incremented
NextIdAfterStuck(nid, opt) == nid

\* a bug: the counter is advanced also when an id was passed
NextIdAfterAlways(nid, opt) == nid + 1

\* the counter after newId was computed
NextIdAfter(nid, opt) ==
    IF Has(opt, "id") /\ opt.id # <<>> THEN nid ELSE nid + 1

\* a bug: the title is not trimmed before it is tested
CreateTitleInvalidNoTrim(data) ==
    ~Has(data, "title") \/ data.title = <<>>

\* !data.title || typeof data.title !== 'string' || data.title.trim() === ""
CreateTitleInvalid(data) ==
    ~Has(data, "title") \/ data.title = <<>> \/ Trim(data.title) = <<>>

\* !TASK_PRIORITIES.includes(data.priority)
CreatePriorityInvalid(data) ==
    ~Has(data, "priority") \/ ~Includes(TASK_PRIORITIES, data.priority)

\* a bug: the new task is never put into the map
StoreNewTaskForgotten(store, newId, task) == store

\* this.taskStore.set(newId, task)
StoreNewTask(store, newId, task) == MapSet(store, newId, task)

\* createTask(data, id?, completed?, createdAt?) at clock value clock;
\* opt holds the optional arguments that were passed
CreateTask(store, nid, data, opt, clock) ==
    IF CreateTitleInvalid(data)
    THEN Throw(TitleRequiredMessage, store, nid)
    ELSE IF CreatePriorityInvalid(data)
    THEN Throw(PriorityMessage, store, nid)
    ELSE IF ~Has(data, "description")
    THEN Throw(DescriptionMessage, store, nid)
    ELSE LET newId == NewId(store, nid, opt)
             task == [id |-> newId,
                      title |-> Trim(data.title),
                      description |-> data.description,
                      priority |-> data.priority,
                      completed |-> IF Has(opt, "completed")
                                    THEN opt.completed ELSE FALSE,
                      createdAt |-> IF Has(opt, "createdAt")
                                    THEN opt.createdAt ELSE clock]
         IN  [threw |-> FALSE, task |-> task,
              store |-> StoreNewTask(store, newId, task),
              nextId |-> NextIdAfter(nid, opt)]

\* a bug: the priority of an update is not validated
UpdatePriorityInvalidUnchecked(data) == FALSE

\* data.priority !== undefined && !TASK_PRIORITIES.includes(data.priority)
UpdatePriorityInvalid(data) ==
    Has(data, "priority") /\ ~Includes(TASK_PRIORITIES, data.priority)

\* a bug: the title of an update is stored as submitted
MergedTitleUntrimmed(task, data) ==
    IF Has(data, "title") THEN data.title ELSE task.title

\* title: data.title !== undefined ? data.title.trim() : task.title
MergedTitle(task, data) ==
    IF Has(data, "title") THEN Trim(data.title) ELSE task.title

\* a bug: a description that is not supplied is reset to ""
MergedDescriptionReset(task, data) ==
    IF Has(data, "description") THEN data.description ELSE <<>>

\* description: data.description !== undefined ? data.description
\*                                              : task.description
MergedDescription(task, data) ==
    IF Has(data, "description") THEN data.description ELSE task.description

\* a bug: a priority that is not supplied falls back to the default of the
\* create form
MergedPriorityDefaulted(task, data) ==
    IF Has(data, "priority") THEN data.priority ELSE Medium

\* priority: data.priority !== undefined ? data.priority : task.priority
MergedPriority(task, data) ==
    IF Has(data, "priority") THEN data.priority ELSE task.priority

\* updateTask(id, data)
UpdateTask(store, nid, id, data) ==
    LET task == MapGet(store, id)
    IN  IF task = Undefined
        THEN [threw |-> FALSE, task |-> Undefined,
              store |-> store, nextId |-> nid]
        ELSE IF Has(data, "title") /\ Trim(data.title) = <<>>
        THEN Throw(TitleEmptyMessage, store, nid)
        ELSE IF UpdatePriorityInvalid(data)
        THEN Throw(PriorityMessage, store, nid)
        ELSE LET updatedTask ==
                     [task EXCEPT
                        !.title = MergedTitle(task, data),
                        !.description = MergedDescription(task, data),
                        !.priority = MergedPriority(task, data)]
             IN  [threw |-> FALSE, task |-> updatedTask,
                  store |-> MapSet(store, id, updatedTask),
                  nextId |-> nid]

\* a bug: the task is marked completed instead of flipped
ToggledSet(task) == [task EXCEPT !.completed = TRUE]

\* { ...task, completed: !task.completed }
Toggled(task) == [task EXCEPT !.completed = ~@]

\* toggleTaskCompletion(id)
ToggleTaskCompletion(store, id) ==
    LET task == MapGet(store, id)
    IN  IF task = Undefined
        THEN [task |-> Undefined, store |-> store]
        ELSE LET updatedTask == Toggled(task)
             IN  [task |-> updatedTask,
                  store |-> MapSet(store, id, updatedTask)]

\* a bug: success is reported whether or not the id was stored
DeleteTaskAlwaysTrue(store, id) ==
    [deleted |-> TRUE, store |-> MapDelete(store, id)]

\* deleteTask(id): Map.prototype.delete returns whether the key was there
DeleteTask(store, id) ==
    [deleted |-> MapHas(store, id), store |-> MapDelete(store, id)]

\* getTaskById(id)
GetTaskById(store, id) == MapGet(store, id)

\* the values of the status argument the filter of getAllTasks tells apart
\* (the argument is a string or null)
StatusActive == [string |-> "active"]
StatusCompleted == [string |-> "completed"]

\* a bug: the filter "active" keeps every task
StatusKeepsAllWhenActive(status, task) ==
    IF status = StatusCompleted THEN task.completed ELSE TRUE

\* a bug: a status that is neither active nor completed keeps no task
StatusKeepsNoneWhenOther(status, task) ==
    IF status = StatusActive THEN ~task.completed
    ELSE IF status = StatusCompleted THEN task.completed
    ELSE status = [null |-> TRUE]

\* the callback of filter in getAllTasks
StatusKeeps(status, task) ==
    IF status = StatusActive THEN ~task.completed
    ELSE IF status = StatusCompleted THEN task.completed
    ELSE TRUE

\* Array.prototype.filter with that callback
RECURSIVE FilterByStatus(_, _)
FilterByStatus(tasks, status) ==
    IF tasks = <<>> THEN <<>>
    ELSE IF StatusKeeps(status, Head(tasks))
    THEN <<Head(tasks)>> \o FilterByStatus(Tail(tasks), status)
    ELSE FilterByStatus(Tail(tasks), status)

\* a bug: the comparator is a.createdAt - b.createdAt, oldest first
SortsBeforeAscending(a, b) == a.createdAt < b.createdAt

\* (a, b) => b.createdAt.getTime() - a.createdAt.getTime() is negative:
\* a is put before b
SortsBefore(a, b) == b.createdAt - a.createdAt < 0

\* the place of task in a sorted array: behind every element that does not
\* have to come after it (Array.prototype.sort is stable)
RECURSIVE InsertSorted(_, _)
InsertSorted(sorted, task) ==
    IF sorted = <<>> THEN <<task>>
    ELSE IF SortsBefore(task, Head(sorted)) THEN <<task>> \o sorted
    ELSE <<Head(sorted)>> \o InsertSorted(Tail(sorted), task)

\* Array.prototype.sort with that comparator
RECURSIVE SortTasks(_)
SortTasks(tasks) ==
    IF tasks = <<>> THEN <<>>
    ELSE InsertSorted(SortTasks(SubSeq(tasks, 1, Len(tasks) - 1)),
                      tasks[Len(tasks)])

\* a bug: the array that is filtered and sorted is the store itself
ValuesInPlace(store, tasks) == tasks

\* [...this.taskStore.values()] is a copy: what filter and sort make of it
\* (tasks) does not reach the map
ValuesCopied(store, tasks) == store

\* getAllTasks(status)
GetAllTasks(store, status) ==
    LET filteredTasks == SortTasks(FilterByStatus(store, status))
    IN  [tasks |-> filteredTasks, store |-> ValuesCopied(store, filteredTasks)]

(***************************************************************************)
(* Seeding (the constructor).                                              *)
(***************************************************************************)
SeedTitle1 ==
    <<"C", "o", "m", "p", "l", "e", "t", "e", " ", "t", "h", "e", " ", "p",
      "r", "o", "j", "e", "c", "t", " ", "s", "e", "t", "u", "p">>
SeedDescription1 ==
    <<"I", "n", "i", "t", "i", "a", "l", " ", "s", "e", "t", "u", "p", " ",
      "f", "o", "r", " ", "t", "h", "e", " ", "S", "h", "o", "e", "l", "a",
      "c", "e", " ", "a", "n", "d", " ", "H", "T", "M", "X", " ", "d", "e",
      "m", "o">>
SeedTitle2 ==
    <<"R", "e", "s", "e", "a", "r", "c", "h", " ", "W", "e", "b", " ", "C",
      "o", "m", "p", "o", "n", "e", "n", "t", "s">>
SeedDescription2 ==
    <<"L", "o", "o", "k", " ", "i", "n", "t", "o", " ", "S", "h", "o", "e",
      "l", "a", "c", "e", " ", "a", "n", "d", " ", "o", "t", "h", "e", "r",
      " ", "c", "o", "m", "p", "o", "n", "e", "n", "t", " ", "l", "i", "b",
      "r", "a", "r", "i", "e", "s">>
SeedTitle3 ==
    <<"I", "m", "p", "l", "e", "m", "e", "n", "t", " ", "s", "e", "r", "v",
      "e", "r", " ", "e", "n", "d", "p", "o", "i", "n", "t", "s">>
SeedDescription3 ==
    <<"C", "r", "e", "a", "t", "e", " ", "t", "h", "e", " ", "A", "P", "I",
      " ", "f", "o", "r", " ", "t", "a", "s", "k", " ", "m", "a", "n", "a",
      "g", "e", "m", "e", "n", "t">>

initialTasksData ==
    <<[title |-> SeedTitle1, description |-> SeedDescription1,
       priority |-> Medium],
      [title |-> SeedTitle2, description |-> SeedDescription2,
       priority |-> Low],
      [title |-> SeedTitle3, description |-> SeedDescription3,
       priority |-> High]>>

SeedOpt(id, completed, createdAt) ==
    [id |-> id, completed |-> completed, createdAt |-> createdAt]

\* seedInitialTasks, the clock reading c1, c2, c3 at its three Date calls
SeedInitialTasks(c1, c2, c3) ==
    LET r1 == CreateTask(<<>>, FirstNextId, initialTasksData[1],
                         SeedOpt(<<"1">>, FALSE, c1), c1)
        r2 == CreateTask(r1.store, r1.nextId, initialTasksData[2],
                         SeedOpt(<<"2">>, TRUE, c2 - DayMs), c2)
        r3 == CreateTask(r2.store, r2.nextId, initialTasksData[3],
                         SeedOpt(<<"3">>, FALSE, c3), c3)
    IN  r3

SeedIds == {<<"1">>, <<"2">>, <<"3">>}

(***************************************************************************)
(* Fragment rendering and responses.                                       *)
(***************************************************************************)
\* htmlEscape of html_utils.ts: each of & < > " ' becomes its entity (one
\* piece), every other piece is kept
EscapePiece(c) ==
    CASE c = "&" -> "&amp;"
      [] c = "<" -> "&lt;"
      [] c = ">" -> "&gt;"
      [] c = "\"" -> "&quot;"
      [] c = "'" -> "&#39;"
      [] OTHER -> c

HtmlEscape(s) == [i \in 1..Len(s) |-> EscapePiece(s[i])]

\* a bug: every priority but high gets the variant of low
BadgeVariantHighOrNot(priority) ==
    IF priority = High THEN "danger" ELSE "success"

\* badgeVariant of taskToHtml
BadgeVariant(priority) ==
    IF priority = High THEN "danger"
    ELSE IF priority = Medium THEN "primary"
    ELSE "success"

\* a bug: the title and the description are interpolated as they are stored
TaskToHtmlUnescaped(task) ==
    LET id == HtmlEscape(task.id)
    IN  [fragment |-> "task",
         id |-> <<"task-">> \o id,
         checked |-> task.completed,
         togglePut |-> <<"/api/tasks/">> \o id \o <<"/toggle">>,
         toggleTarget |-> <<"#task-">> \o id,
         taskClass |-> IF task.completed THEN "task-complete" ELSE "",
         title |-> task.title,
         description |-> task.description,
         badgeVariant |-> BadgeVariant(task.priority),
         priority |-> HtmlEscape(task.priority),
         editGet |-> <<"/api/tasks/">> \o id \o <<"/edit">>,
         editTarget |-> <<"#task-">> \o id,
         deleteDelete |-> <<"/api/tasks/">> \o id,
         deleteTarget |-> <<"#task-">> \o id]

\* taskToHtml: the parts of the template that depend on the task
TaskToHtml(task) ==
    LET id == HtmlEscape(task.id)
    IN  [fragment |-> "task",
         id |-> <<"task-">> \o id,
         checked |-> task.completed,
         togglePut |-> <<"/api/tasks/">> \o id \o <<"/toggle">>,
         toggleTarget |-> <<"#task-">> \o id,
         taskClass |-> IF task.completed THEN "task-complete" ELSE "",
         title |-> HtmlEscape(task.title),
         description |-> HtmlEscape(task.description),
         badgeVariant |-> BadgeVariant(task.priority),
         priority |-> HtmlEscape(task.priority),
         editGet |-> <<"/api/tasks/">> \o id \o <<"/edit">>,
         editTarget |-> <<"#task-">> \o id,
         deleteDelete |-> <<"/api/tasks/">> \o id,
         deleteTarget |-> <<"#task-">> \o id]

DEFAULT_CORS_HEADERS ==
    ("Access-Control-Allow-Origin" :> "*")
    @@ ("Access-Control-Allow-Methods" :> "GET, POST, PUT, DELETE, OPTIONS")
    @@ ("Access-Control-Allow-Headers" :> "Content-Type")

Null == [null |-> TRUE]

\* new Response(html, {headers: {...DEFAULT_CORS_HEADERS, "Content-Type":
\* "text/html"}}): the status defaults to 200
HtmlResponse(body) ==
    [status |-> 200,
     headers |-> ("Content-Type" :> "text/html") @@ DEFAULT_CORS_HEADERS,
     body |-> body]

jsonErrorResponse(message, status) ==
    [status |-> status,
     headers |-> ("Content-Type" :> "application/json")
                     @@ DEFAULT_CORS_HEADERS,
     body |-> [json |-> [error |-> message]]]

\* htmlErrorResponse(message, status) with the default variant "danger"
htmlErrorResponse(message, status) ==
    [status |-> status,
     headers |-> ("Content-Type" :> "text/html") @@ DEFAULT_CORS_HEADERS,
     body |-> [fragment |-> "alert", variant |-> "danger",
               icon |-> "exclamation-octagon",
               message |-> HtmlEscape(message)]]

TaskNotFoundMessage == <<"Task not found.">>
DeleteNotFoundMessage == <<"Task not found or could not be deleted.">>
CreateUnexpectedMessage ==
    <<"Failed to create task due to an unexpected error.">>
UpdateUnexpectedMessage ==
    <<"Failed to update task due to an unexpected error.">>

(***************************************************************************)
(* API endpoint handlers.  A request body is [ok |-> TRUE, form |-> f]     *)
(* when req.formData() yields the form f, and [ok |-> FALSE, message |->   *)
(* m] when it rejects with an error whose message is m.                    *)
(***************************************************************************)
\* formData.get(name)?.toString() || dflt
FormGetOr(form, name, dflt) ==
    IF Has(form, name) /\ form[name] # <<>> THEN form[name] ELSE dflt

\* a bug: every error that is caught is answered as an unexpected one
CatchResponseAlwaysUnexpected(message, unexpected) ==
    htmlErrorResponse(unexpected, 500)

\* a bug: the answer to an unexpected error carries the message of the
\* error
CatchResponseEcho(message, unexpected) ==
    IF StartsWith(message, InvalidPrefix)
    THEN htmlErrorResponse(message, 400)
    ELSE htmlErrorResponse(message, 500)

\* the catch block of createTaskHandler and updateTaskHandler
CatchResponse(message, unexpected) ==
    IF StartsWith(message, InvalidPrefix)
    THEN htmlErrorResponse(message, 400)
    ELSE htmlErrorResponse(unexpected, 500)

\* what an operation reports: everything it returned but the new state
Report(r) == [f \in DOMAIN r \ {"store", "nextId"} |-> r[f]]

\* the call a handler made to the repository and what it returned
Call(op, args, r) == [op |-> op, res |-> Report(r)] @@ args

\* a bug: the form's default priority is low
FormPriorityDefaultLow(form) ==
    IF ~Has(form, "priority") THEN Low ELSE FormGetOr(form, "priority", Low)

\* priority: formData.get("priority")?.toString() || "medium", and
\* "medium" again if (!formData.has("priority"))
FormPriority(form) ==
    IF ~Has(form, "priority") THEN Medium
    ELSE FormGetOr(form, "priority", Medium)

\* a bug: parseFormData is awaited outside the try block, and its error
\* leaves the handler without an answer
createTaskHandlerUncaught(store, nid, body, clock) ==
    IF ~body.ok
    THEN [store |-> store, nextId |-> nid]
    ELSE LET taskData ==
                 [title |-> FormGetOr(body.form, "title", <<>>),
                  description |-> FormGetOr(body.form, "description", <<>>),
                  priority |-> FormPriority(body.form)]
             r == CreateTask(store, nid, taskData, NoFields, clock)
         IN  [resp |-> IF r.threw
                       THEN CatchResponse(r.message, CreateUnexpectedMessage)
                       ELSE HtmlResponse(TaskToHtml(r.task)),
              call |-> Call("createTask", [data |-> taskData], r),
              store |-> r.store, nextId |-> r.nextId]

createTaskHandler(store, nid, body, clock) ==
    IF ~body.ok
    THEN [resp |-> CatchResponse(body.message, CreateUnexpectedMessage),
          store |-> store, nextId |-> nid]
    ELSE LET taskData ==
                 [title |-> FormGetOr(body.form, "title", <<>>),
                  description |-> FormGetOr(body.form, "description", <<>>),
                  priority |-> FormPriority(body.form)]
             r == CreateTask(store, nid, taskData, NoFields, clock)
         IN  [resp |-> IF r.threw
                       THEN CatchResponse(r.message, CreateUnexpectedMessage)
                       ELSE HtmlResponse(TaskToHtml(r.task)),
              call |-> Call("createTask", [data |-> taskData], r),
              store |-> r.store, nextId |-> r.nextId]

updateTaskHandler(store, nid, id, body) ==
    IF ~body.ok
    THEN [resp |-> CatchResponse(body.message, UpdateUnexpectedMessage),
          store |-> store, nextId |-> nid]
    ELSE LET validTaskData == body.form
             r == UpdateTask(store, nid, id, validTaskData)
         IN  [resp |-> IF r.threw
                       THEN CatchResponse(r.message, UpdateUnexpectedMessage)
                       ELSE IF r.task = Undefined
                       THEN htmlErrorResponse(TaskNotFoundMessage, 404)
                       ELSE HtmlResponse(TaskToHtml(r.task)),
              call |-> Call("updateTask",
                            [id |-> id, data |-> validTaskData], r),
              store |-> r.store, nextId |-> r.nextId]

\* a bug: the delete of a task that is not stored is answered as a success
deleteTaskHandlerIdempotent(store, id) ==
    LET r == DeleteTask(store, id)
    IN  [resp |-> [status |-> 204, headers |-> DEFAULT_CORS_HEADERS,
                   body |-> Null],
         call |-> Call("deleteTask", [id |-> id], r),
         store |-> r.store]

\* a bug: a delete that finds no task answers with the HTML alert
deleteTaskHandlerHtmlError(store, id) ==
    LET r == DeleteTask(store, id)
    IN  [resp |-> IF ~r.deleted
                  THEN htmlErrorResponse(DeleteNotFoundMessage, 404)
                  ELSE [status |-> 204, headers |-> DEFAULT_CORS_HEADERS,
                        body |-> Null],
         call |-> Call("deleteTask", [id |-> id], r),
         store |-> r.store]

deleteTaskHandler(store, id) ==
    LET r == DeleteTask(store, id)
    IN  [resp |-> IF ~r.deleted
                  THEN jsonErrorResponse(DeleteNotFoundMessage, 404)
                  ELSE [status |-> 204, headers |-> DEFAULT_CORS_HEADERS,
                        body |-> Null],
         call |-> Call("deleteTask", [id |-> id], r),
         store |-> r.store]

toggleTaskHandler(store, id) ==
    LET r == ToggleTaskCompletion(store, id)
    IN  [resp |-> IF r.task = Undefined
                  THEN htmlErrorResponse(TaskNotFoundMessage, 404)
                  ELSE HtmlResponse(TaskToHtml(r.task)),
         call |-> Call("toggleTaskCompletion", [id |-> id], r),
         store |-> r.store]

\* a bug: the edit form is swapped into an element of its own
TaskEditFormHtmlOwnTarget(task) ==
    LET id == HtmlEscape(task.id)
    IN  [fragment |-> "edit-form",
         formPut |-> <<"/api/tasks/">> \o id,
         formTarget |-> <<"#edit-task-">> \o id,
         title |-> HtmlEscape(task.title),
         description |-> HtmlEscape(task.description),
         priority |-> HtmlEscape(task.priority),
         cancelGet |-> <<"/api/tasks/">> \o id,
         cancelTarget |-> <<"#task-">> \o id]

\* taskEditFormHtml: the parts of the template that depend on the task
TaskEditFormHtml(task) ==
    LET id == HtmlEscape(task.id)
    IN  [fragment |-> "edit-form",
         formPut |-> <<"/api/tasks/">> \o id,
         formTarget |-> <<"#task-">> \o id,
         title |-> HtmlEscape(task.title),
         description |-> HtmlEscape(task.description),
         priority |-> HtmlEscape(task.priority),
         cancelGet |-> <<"/api/tasks/">> \o id,
         cancelTarget |-> <<"#task-">> \o id]

\* the alert getTasksHandler answers with when the list is empty
NoTasksFoundHtml ==
    [fragment |-> "alert", variant |-> "neutral", icon |-> "info-circle",
     message |-> <<"No tasks found. Add your first task above.">>]

\* a bug: the empty state is answered when the store is empty, not when the
\* filtered list is
getTasksHandlerEmptyByStore(store, status) ==
    LET r == GetAllTasks(store, status)
    IN  [resp |-> IF Len(store) = 0
                  THEN HtmlResponse(NoTasksFoundHtml)
                  ELSE HtmlResponse(
                           [fragment |-> "tasks",
                            items |-> [i \in 1..Len(r.tasks) |->
                                          TaskToHtml(r.tasks[i])]]),
         call |-> Call("getAllTasks", [status |-> status], r),
         store |-> r.store]

\* getTasksHandler; status is url.searchParams.get("status")
getTasksHandler(store, status) ==
    LET r == GetAllTasks(store, status)
    IN  [resp |-> IF Len(r.tasks) = 0
                  THEN HtmlResponse(NoTasksFoundHtml)
                  ELSE HtmlResponse(
                           [fragment |-> "tasks",
                            items |-> [i \in 1..Len(r.tasks) |->
                                          TaskToHtml(r.tasks[i])]]),
         call |-> Call("getAllTasks", [status |-> status], r),
         store |-> r.store]

getTaskByIdHandler(store, id) ==
    LET task == GetTaskById(store, id)
    IN  [resp |-> IF task = Undefined
                  THEN htmlErrorResponse(TaskNotFoundMessage, 404)
                  ELSE HtmlResponse(TaskToHtml(task)),
         call |-> Call("getTaskById", [id |-> id], [task |-> task]),
         store |-> store]

\* a bug: the answer for a task that is not stored is left at the default
\* status
getTaskEditFormHandlerDefaultStatus(store, id) ==
    LET task == GetTaskById(store, id)
    IN  [resp |-> IF task = Undefined
                  THEN htmlErrorResponse(TaskNotFoundMessage, 200)
                  ELSE HtmlResponse(TaskEditFormHtml(task)),
         call |-> Call("getTaskById", [id |-> id], [task |-> task]),
         store |-> store]

getTaskEditFormHandler(store, id) ==
    LET task == GetTaskById(store, id)
    IN  [resp |-> IF task = Undefined
                  THEN htmlErrorResponse(TaskNotFoundMessage, 404)
                  ELSE HtmlResponse(TaskEditFormHtml(task)),
         call |-> Call("getTaskById", [id |-> id], [task |-> task]),
         store |-> store]

(***************************************************************************)
(* Routing.  A path is a string of single characters.                      *)
(***************************************************************************)
\* String.prototype.startsWith
HasPrefix(s, prefix) ==
    Len(s) >= Len(prefix) /\ SubSeq(s, 1, Len(prefix)) = prefix

\* String.prototype.split for a separator of one character
RECURSIVE SplitFrom(_, _, _, _)
SplitFrom(s, sep, k, segment) ==
    IF k > Len(s) THEN <<segment>>
    ELSE IF s[k] = sep
    THEN <<segment>> \o SplitFrom(s, sep, k + 1, <<>>)
    ELSE SplitFrom(s, sep, k + 1, Append(segment, s[k]))

Split(s, sep) == SplitFrom(s, sep, 1, <<>>)

RootPath == <<"/">>
ApiPrefix == <<"/", "a", "p", "i">>
TasksPath == ApiPrefix \o <<"/", "t", "a", "s", "k", "s">>
EditSuffix == <<"/", "e", "d", "i", "t">>
ToggleSuffix == <<"/", "t", "o", "g", "g", "l", "e">>
IdParam == <<"i", "d">>

\* the characters \w matches
WordChars ==
    {"a", "b", "c", "d", "e", "f", "g", "h", "i", "j", "k", "l", "m", "n",
     "o", "p", "q", "r", "s", "t", "u", "v", "w", "x", "y", "z",
     "A", "B", "C", "D", "E", "F", "G", "H", "I", "J", "K", "L", "M", "N",
     "O", "P", "Q", "R", "S", "T", "U", "V", "W", "X", "Y", "Z",
     "0", "1", "2", "3", "4", "5", "6", "7", "8", "9", "_"}

\* a bug: the identifier segment of the patterns is .+ and runs over
\* slashes
SegmentCharsAny == WordChars \cup {"/", "-", "."}

\* the characters of the identifier segment in the patterns of
\* handleApiRequest
SegmentChars == WordChars

\* path.match(/^\/api\/tasks\/\w+<suffix>$/)
MatchesTaskPath(path, suffix) ==
    LET prefix == TasksPath \o <<"/">>
        n == Len(path) - Len(prefix) - Len(suffix)
    IN  /\ n >= 1
        /\ HasPrefix(path, prefix)
        /\ SubSeq(path, Len(prefix) + n + 1, Len(path)) = suffix
        /\ \A i \in (Len(prefix) + 1)..(Len(prefix) + n) :
               path[i] \in SegmentChars

\* getPathParams(pattern, path)
getPathParams(pattern, path) ==
    LET patternSegments == Split(pattern, "/")
        urlSegments == Split(path, "/")
        named == {i \in 1..Len(patternSegments) :
                     HasPrefix(patternSegments[i], <<":">>)}
    IN  [name \in {Tail(patternSegments[i]) : i \in named} |->
            LET i == CHOOSE j \in named : Tail(patternSegments[j]) = name
            IN  IF i <= Len(urlSegments) THEN urlSegments[i] ELSE Undefined]

PatternById == TasksPath \o <<"/", ":">> \o IdParam
PatternEdit == PatternById \o EditSuffix
PatternToggle == PatternById \o ToggleSuffix

\* the handler a row of handleApiRequest returns the answer of, with the
\* id it is given
ToHandler(handler, pattern, path) ==
    [handler |-> handler, id |-> getPathParams(pattern, path)[IdParam]]

\* handleApiRequest: the row that answers, "none" when it falls through to
\* the last line
handleApiRequest(path, method) ==
    IF path = TasksPath /\ method = "GET"
    THEN [handler |-> "getTasksHandler"]
    ELSE IF path = TasksPath /\ method = "POST"
    THEN [handler |-> "createTaskHandler"]
    ELSE IF MatchesTaskPath(path, <<>>) /\ method = "GET"
    THEN ToHandler("getTaskByIdHandler", PatternById, path)
    ELSE IF MatchesTaskPath(path, <<>>) /\ method = "PUT"
    THEN ToHandler("updateTaskHandler", PatternById, path)
    ELSE IF MatchesTaskPath(path, <<>>) /\ method = "DELETE"
    THEN ToHandler("deleteTaskHandler", PatternById, path)
    ELSE IF MatchesTaskPath(path, EditSuffix) /\ method = "GET"
    THEN ToHandler("getTaskEditFormHandler", PatternEdit, path)
    ELSE IF MatchesTaskPath(path, ToggleSuffix) /\ method = "PUT"
    THEN ToHandler("toggleTaskHandler", PatternToggle, path)
    ELSE [handler |-> "none"]

\* the rows of handleApiRequest in the order they are tested: the method,
\* whether the path is compared with "/api/tasks" or matched against the
\* by-id pattern with the suffix, and the handler
RouteRows ==
    <<[method |-> "GET", exact |-> TRUE, suffix |-> <<>>,
       handler |-> "getTasksHandler"],
      [method |-> "POST", exact |-> TRUE, suffix |-> <<>>,
       handler |-> "createTaskHandler"],
      [method |-> "GET", exact |-> FALSE, suffix |-> <<>>,
       handler |-> "getTaskByIdHandler"],
      [method |-> "PUT", exact |-> FALSE, suffix |-> <<>>,
       handler |-> "updateTaskHandler"],
      [method |-> "DELETE", exact |-> FALSE, suffix |-> <<>>,
       handler |-> "deleteTaskHandler"],
      [method |-> "GET", exact |-> FALSE, suffix |-> EditSuffix,
       handler |-> "getTaskEditFormHandler"],
      [method |-> "PUT", exact |-> FALSE, suffix |-> ToggleSuffix,
       handler |-> "toggleTaskHandler"]>>

\* the condition of a row
RowMatches(row, path, method) ==
    /\ method = row.method
    /\ IF row.exact THEN path = TasksPath
       ELSE MatchesTaskPath(path, row.suffix)

\* path === "/" || !path.startsWith("/api")
IsStaticPath(path) == path = RootPath \/ ~HasPrefix(path, ApiPrefix)

\* a bug: the static paths are served before the method is looked at
handleRequestStaticFirst(path, method) ==
    IF IsStaticPath(path) THEN [handler |-> "serveStaticFile"]
    ELSE IF method = "OPTIONS" THEN [handler |-> "preflight"]
    ELSE handleApiRequest(path, method)

\* handleRequest: who answers the request
handleRequest(path, method) ==
    IF method = "OPTIONS" THEN [handler |-> "preflight"]
    ELSE IF IsStaticPath(path) THEN [handler |-> "serveStaticFile"]
    ELSE handleApiRequest(path, method)

\* the answer to a preflight request
PreflightResponse ==
    [status |-> 204, headers |-> DEFAULT_CORS_HEADERS, body |-> Null]

ApiEndpointNotFoundMessage == <<"API Endpoint Not Found">>

\* a bug: the last line of handleApiRequest answers with the HTML alert of
\* the handlers
ApiEndpointNotFoundAsHtml ==
    htmlErrorResponse(ApiEndpointNotFoundMessage, 404)

\* return jsonErrorResponse("API Endpoint Not Found", 404)
ApiEndpointNotFound == jsonErrorResponse(ApiEndpointNotFoundMessage, 404)

\* serveStaticFile.  What serveFile does is not decided by the server:
\* outcome is "served" when it returns the response of a file, "NotFound"
\* when it throws Deno.errors.NotFound and "error" when it throws
\* something else.
StaticFilePath(path) ==
    IF path = RootPath THEN <<"./public/index.html">>
    ELSE <<"./public">> \o path

\* contentType(extname(filePath)) || "application/octet-stream", for
\* index.html and for a path without an extension
StaticContentType(path) ==
    IF path = RootPath THEN "text/html; charset=UTF-8"
    ELSE "application/octet-stream"

\* a bug: the plain-text answers carry the content type only
TextResponseBare(text, status) ==
    [status |-> status,
     headers |-> ("Content-Type" :> "text/plain"),
     body |-> [text |-> text]]

\* new Response(text, { status, headers: { ...DEFAULT_CORS_HEADERS,
\* "Content-Type": "text/plain" } })
TextResponse(text, status) ==
    [status |-> status,
     headers |-> ("Content-Type" :> "text/plain") @@ DEFAULT_CORS_HEADERS,
     body |-> [text |-> text]]

serveStaticFile(path, outcome) ==
    LET filePath == StaticFilePath(path)
    IN  IF outcome = "served"
        THEN [status |-> 200,
              headers |-> ("Content-Type" :> StaticContentType(path))
                              @@ DEFAULT_CORS_HEADERS,
              body |-> [file |-> filePath]]
        ELSE IF outcome = "NotFound"
        THEN TextResponse("File Not Found", 404)
        ELSE TextResponse("Internal Server Error", 500)

(***************************************************************************)
(* State.                                                                  *)
(***************************************************************************)
VARIABLES
    taskStore,   \* TaskService.taskStore
    nextId,      \* TaskService.nextId
    now,         \* the last reading of the clock (new Date(), Date.now())
    inflight,    \* the handler that is suspended at await parseFormData(req)
    everStored,  \* history: every id that was ever a key of taskStore
    last,        \* the last step: its arguments, the call it made to the
                 \* repository and what was returned
    steps        \* number of operations completed so far

vars == <<taskStore, nextId, now, inflight, everStored, last, steps>>

\* no handler is suspended
Idle == [handler |-> "none"]

\* the milliseconds that can pass between two readings of the clock
Ticks == {0, 1}

\* the constructor takes at most one millisecond
Init ==
    \E d2 \in Ticks, d3 \in Ticks :
        d2 + d3 <= 1 /\
        LET c1 == StartTime
            c2 == c1 + d2
            c3 == c2 + d3
            seeded == SeedInitialTasks(c1, c2, c3)
        IN  /\ taskStore = seeded.store
            /\ nextId = seeded.nextId
            /\ now = c3
            /\ inflight = Idle
            /\ everStored = StoredIds(seeded.store)
            /\ last = [op |-> "construct"]
            /\ steps = 0

(***************************************************************************)
(* Inputs.                                                                 *)
(***************************************************************************)
Urgent == <<"u", "r", "g", "e", "n", "t">>

TitleArgs == {<<>>, <<" ">>, <<" ", "b", " ">>}
DescriptionArgs == {<<"d">>}
PriorityArgs == {Low, Medium, High, Urgent}

DataArgs ==
    {MkData(ts, ds, ps) : ts \in Optional(TitleArgs),
                          ds \in Optional(DescriptionArgs),
                          ps \in Optional(PriorityArgs)}

\* what req.formData() rejects with when the body is not form data
ParseErrorMessage == <<"Body can not be decoded as form data">>

Bodies ==
    {[ok |-> TRUE, form |-> f] : f \in DataArgs}
        \cup {[ok |-> FALSE, message |-> ParseErrorMessage]}

\* an id that the counter never gives out within the bounds
NeverStoredId == <<"9">>

\* the ids operations are addressed to: every id that was ever stored and
\* one that never was
TargetIds == everStored \cup {NeverStoredId}

\* the clock after a createTask: new Date() is read only when the task is
\* built, after the validation
ClockAfter(r, clock) == IF r.threw THEN now ELSE clock

(***************************************************************************)
(* Requests.  createTaskHandler and updateTaskHandler are suspended once,  *)
(* at await parseFormData(req); the other handlers run in one step.  The   *)
(* requests are handled one after the other.  A step of a handler includes*)
(* the call it makes to the repository; last.call is that call.            *)
(***************************************************************************)
\* POST /api/tasks arrives
StartCreateTaskHandler ==
    /\ steps < MaxSteps
    /\ inflight = Idle
    /\ inflight' = [handler |-> "createTaskHandler"]
    /\ last' = [op |-> "await", handler |-> "createTaskHandler"]
    /\ UNCHANGED <<taskStore, nextId, now, everStored, steps>>

\* the body of the POST is read (or fails to parse)
FinishCreateTaskHandler ==
    /\ inflight.handler = "createTaskHandler"
    /\ \E body \in Bodies, d \in Ticks :
         \E h \in {createTaskHandler(taskStore, nextId, body, now + d)} :
             /\ taskStore' = h.store
             /\ nextId' = h.nextId
             /\ now' = IF Has(h, "call") THEN ClockAfter(h.call.res, now + d)
                       ELSE now
             /\ everStored' = everStored \cup StoredIds(h.store)
             /\ last' = [op |-> "createTaskHandler", body |-> body]
                            @@ Report(h)
    /\ inflight' = Idle
    /\ steps' = steps + 1

\* PUT /api/tasks/:id arrives
StartUpdateTaskHandler ==
    /\ steps < MaxSteps
    /\ inflight = Idle
    /\ \E id \in TargetIds :
         /\ inflight' = [handler |-> "updateTaskHandler", id |-> id]
         /\ last' = [op |-> "await", handler |-> "updateTaskHandler",
                     id |-> id]
    /\ UNCHANGED <<taskStore, nextId, now, everStored, steps>>

\* the body of the PUT is read (or fails to parse)
FinishUpdateTaskHandler ==
    /\ inflight.handler = "updateTaskHandler"
    /\ \E body \in Bodies :
         \E h \in {updateTaskHandler(taskStore, nextId, inflight.id, body)} :
             /\ taskStore' = h.store
             /\ nextId' = h.nextId
             /\ everStored' = everStored \cup StoredIds(h.store)
             /\ last' = [op |-> "updateTaskHandler", id |-> inflight.id,
                         body |-> body] @@ Report(h)
    /\ inflight' = Idle
    /\ steps' = steps + 1
    /\ UNCHANGED now

\* DELETE /api/tasks/:id
DeleteTaskRequest ==
    /\ steps < MaxSteps
    /\ inflight = Idle
    /\ \E id \in TargetIds :
         \E h \in {deleteTaskHandler(taskStore, id)} :
             /\ taskStore' = h.store
             /\ everStored' = everStored \cup StoredIds(h.store)
             /\ last' = [op |-> "deleteTaskHandler", id |-> id] @@ Report(h)
    /\ steps' = steps + 1
    /\ UNCHANGED <<nextId, now, inflight>>

\* PUT /api/tasks/:id/toggle
ToggleTaskRequest ==
    /\ steps < MaxSteps
    /\ inflight = Idle
    /\ \E id \in TargetIds :
         \E h \in {toggleTaskHandler(taskStore, id)} :
             /\ taskStore' = h.store
             /\ everStored' = everStored \cup StoredIds(h.store)
             /\ last' = [op |-> "toggleTaskHandler", id |-> id] @@ Report(h)
    /\ steps' = steps + 1
    /\ UNCHANGED <<nextId, now, inflight>>

Next ==
    \/ StartCreateTaskHandler
    \/ FinishCreateTaskHandler
    \/ StartUpdateTaskHandler
    \/ FinishUpdateTaskHandler
    \/ DeleteTaskRequest
    \/ ToggleTaskRequest

Spec == Init /\ [][Next]_vars

(***************************************************************************)
(* Direct calls of the repository, as a caller other than the handlers     *)
(* makes them: any field of the data of createTask may be missing.         *)
(* (updateTaskHandler passes the fields of the form on unchanged, so every *)
(* updateTask over the inputs is a step of Spec.)  No handler is suspended *)
(* while the repository is called directly.                                *)
(***************************************************************************)
CallCreateTask ==
    /\ steps < MaxSteps
    /\ inflight = Idle
    /\ \E data \in DataArgs, d \in Ticks :
         \E r \in {CreateTask(taskStore, nextId, data, NoFields, now + d)} :
             /\ taskStore' = r.store
             /\ nextId' = r.nextId
             /\ now' = ClockAfter(r, now + d)
             /\ everStored' = everStored \cup StoredIds(r.store)
             /\ last' = [op |-> "createTask",
                         call |-> Call("createTask", [data |-> data], r)]
    /\ steps' = steps + 1
    /\ UNCHANGED inflight

CallToggleTaskCompletion ==
    /\ steps < MaxSteps
    /\ inflight = Idle
    /\ \E id \in TargetIds :
         \E r \in {ToggleTaskCompletion(taskStore, id)} :
             /\ taskStore' = r.store
             /\ everStored' = everStored \cup StoredIds(r.store)
             /\ last' = [op |-> "toggleTaskCompletion",
                         call |-> Call("toggleTaskCompletion",
                                       [id |-> id], r)]
    /\ steps' = steps + 1
    /\ UNCHANGED <<nextId, now, inflight>>

CallDeleteTask ==
    /\ steps < MaxSteps
    /\ inflight = Idle
    /\ \E id \in TargetIds :
         \E r \in {DeleteTask(taskStore, id)} :
             /\ taskStore' = r.store
             /\ everStored' = everStored \cup StoredIds(r.store)
             /\ last' = [op |-> "deleteTask",
                         call |-> Call("deleteTask", [id |-> id], r)]
    /\ steps' = steps + 1
    /\ UNCHANGED <<nextId, now, inflight>>

\* creation by both entries, a direct call and POST /api/tasks
NextCreate ==
    \/ CallCreateTask
    \/ CallToggleTaskCompletion
    \/ CallDeleteTask
    \/ StartCreateTaskHandler
    \/ FinishCreateTaskHandler

SpecCreate == Init /\ [][NextCreate]_vars

(***************************************************************************)
(* Requests as they reach handleRequest: a method, the path of the URL and *)
(* the value of the query parameter status.  The body is an input of the   *)
(* two handlers that read it, at the step that reads it.                   *)
(***************************************************************************)
\* a seed task, the first id the counter gives out, an id that is never
\* stored and two with a character that is none of letter, digit,
\* underscore
HyphenId == <<"a", "-", "b">>
DottedId == <<"1", ".", "5">>
IdArgs == {<<"1">>, <<"4">>, NeverStoredId, HyphenId, DottedId}

ApiDocsPath == ApiPrefix \o <<"d", "o", "c", "s">>
ApiOtherPath == ApiPrefix \o <<"/", "o", "t", "h", "e", "r">>

TaskPathOf(id, suffix) == TasksPath \o <<"/">> \o id \o suffix

PathArgs ==
    {RootPath, ApiDocsPath, ApiPrefix, ApiOtherPath, TasksPath}
        \cup {TaskPathOf(id, suffix) :
                 id \in IdArgs, suffix \in {<<>>, EditSuffix, ToggleSuffix}}

MethodArgs == {"GET", "POST", "PUT", "DELETE", "OPTIONS"}

Requests ==
    {[method |-> m, path |-> p, status |-> Null] :
        m \in MethodArgs, p \in PathArgs}
        \cup {[method |-> "GET", path |-> TasksPath, status |-> s] :
                 s \in {StatusActive, StatusCompleted}}

ServeFileOutcomes == {"served", "NotFound", "error"}

\* a body that is not form data, and forms: without fields, valid, with a
\* blank title, with a priority outside the enumeration, with an empty
\* priority
HttpBodies ==
    {[ok |-> FALSE, message |-> ParseErrorMessage]}
        \cup {[ok |-> TRUE, form |-> f] :
                 f \in {NoFields,
                        MkData({<<" ", "b", " ">>}, {<<"d">>}, {Low}),
                        MkData({<<" ">>}, {<<"d">>}, {High}),
                        MkData({<<"b">>}, {}, {Urgent}),
                        MkData({<<"b">>}, {}, {<<>>})}}

\* the handlers that are suspended at await parseFormData(req)
ReadsBody(route) ==
    route.handler \in {"createTaskHandler", "updateTaskHandler"}

\* the answer of the handler the request is routed to, for the handlers
\* that do not read the body
AnswerOf(route, req, outcome, store) ==
    CASE route.handler = "preflight" ->
             [resp |-> PreflightResponse, store |-> store]
      [] route.handler = "serveStaticFile" ->
             [resp |-> serveStaticFile(req.path, outcome), store |-> store]
      [] route.handler = "getTasksHandler" ->
             getTasksHandler(store, req.status)
      [] route.handler = "getTaskByIdHandler" ->
             getTaskByIdHandler(store, route.id)
      [] route.handler = "deleteTaskHandler" ->
             deleteTaskHandler(store, route.id)
      [] route.handler = "getTaskEditFormHandler" ->
             getTaskEditFormHandler(store, route.id)
      [] route.handler = "toggleTaskHandler" ->
             toggleTaskHandler(store, route.id)
      [] OTHER -> [resp |-> ApiEndpointNotFound, store |-> store]

\* the state a step started from
Before ==
    [store |-> taskStore, nextId |-> nextId, everStored |-> everStored]

\* a request arrives: handleRequest runs to the response, or to the await
\* of createTaskHandler and updateTaskHandler
ReceiveRequestFrom(requests) ==
    /\ steps < MaxRequests
    /\ inflight = Idle
    /\ \E req \in requests :
         \E route \in {handleRequest(req.path, req.method)} :
             IF ReadsBody(route)
             THEN /\ inflight' = route @@ [req |-> req]
                  /\ last' = [op |-> "await", req |-> req] @@ route
                  /\ UNCHANGED <<taskStore, nextId, now, everStored, steps>>
             ELSE /\ \E outcome \in
                         IF route.handler = "serveStaticFile"
                         THEN ServeFileOutcomes ELSE {"none"} :
                       \E h \in {AnswerOf(route, req, outcome, taskStore)} :
                           /\ taskStore' = h.store
                           /\ everStored' =
                                  everStored \cup StoredIds(h.store)
                           /\ last' = [op |-> route.handler, req |-> req,
                                       before |-> Before]
                                          @@ route @@ Report(h)
                  /\ steps' = steps + 1
                  /\ UNCHANGED <<nextId, now, inflight>>

\* the suspended handler gets the form (or the error of parseFormData) and
\* runs to its response
ReadRequestBodyFrom(bodies) ==
    /\ Has(inflight, "req")
    /\ \E body \in bodies, d \in Ticks :
         \E h \in {IF inflight.handler = "createTaskHandler"
                   THEN createTaskHandler(taskStore, nextId, body, now + d)
                   ELSE updateTaskHandler(taskStore, nextId, inflight.id,
                                          body)} :
             /\ taskStore' = h.store
             /\ nextId' = h.nextId
             /\ now' = IF Has(h, "call") /\ h.call.op = "createTask"
                       THEN ClockAfter(h.call.res, now + d)
                       ELSE now
             /\ everStored' = everStored \cup StoredIds(h.store)
             /\ last' = [op |-> inflight.handler, body |-> body,
                         before |-> Before]
                            @@ inflight @@ Report(h)
    /\ inflight' = Idle
    /\ steps' = steps + 1

ReceiveRequest == ReceiveRequestFrom(Requests)

ReadRequestBody == ReadRequestBodyFrom(HttpBodies)

NextHttp ==
    \/ ReceiveRequest
    \/ ReadRequestBody

SpecHttp == Init /\ [][NextHttp]_vars

(***************************************************************************)
(* The same server with the requests and the forms that decide what the    *)
(* fragments show: lists with every kind of status, and titles and         *)
(* descriptions with markup.                                               *)
(***************************************************************************)
\* the ids fragments are requested for: a seed task that is not completed,
\* the first task that is created, an id that is never stored
FragmentIds == {<<"1">>, <<"4">>, NeverStoredId}

\* the ids toggled: those, and the seed task that is completed
ToggledIds == FragmentIds \cup {<<"2">>}

\* values of the query parameter status that are neither active nor
\* completed
StatusOther == [string |-> "done"]
StatusEmpty == [string |-> ""]

\* a title and a description with the characters htmlEscape replaces
MarkupTitle == <<"<", "b", ">">>
MarkupDescription == <<"&", "\"", "'">>

FragmentRequests ==
    {[method |-> "GET", path |-> TasksPath, status |-> s] :
        s \in {Null, StatusActive, StatusCompleted, StatusOther,
               StatusEmpty}}
        \cup {[method |-> "POST", path |-> TasksPath, status |-> Null]}
        \cup {[method |-> m, path |-> TaskPathOf(id, <<>>), status |-> Null] :
                 m \in {"GET", "PUT", "DELETE"}, id \in FragmentIds}
        \cup {[method |-> "GET", path |-> TaskPathOf(id, EditSuffix),
               status |-> Null] : id \in FragmentIds}
        \cup {[method |-> "PUT", path |-> TaskPathOf(id, ToggleSuffix),
               status |-> Null] : id \in ToggledIds}

\* a body that is not form data, and forms: without fields, valid, with a
\* priority outside the enumeration, with markup in the title and the
\* description and no priority
FragmentBodies ==
    {[ok |-> FALSE, message |-> ParseErrorMessage]}
        \cup {[ok |-> TRUE, form |-> f] :
                 f \in {NoFields,
                        MkData({<<" ", "b", " ">>}, {<<"d">>}, {Low}),
                        MkData({<<"b">>}, {}, {Urgent}),
                        MkData({MarkupTitle}, {MarkupDescription}, {})}}

ReceiveFragmentRequest == ReceiveRequestFrom(FragmentRequests)

ReadFragmentRequestBody == ReadRequestBodyFrom(FragmentBodies)

NextFragments ==
    \/ ReceiveFragmentRequest
    \/ ReadFragmentRequestBody

SpecFragments == Init /\ [][NextFragments]_vars

(***************************************************************************)
(* The same server with the requests that decide which row of              *)
(* handleApiRequest answers: the words edit and toggle as identifier and   *)
(* as suffix.                                                              *)
(***************************************************************************)
EditId == Tail(EditSuffix)
ToggleId == Tail(ToggleSuffix)

RouteRequests ==
    {[method |-> m, path |-> p, status |-> Null] :
        m \in {"GET", "POST", "PUT", "DELETE"},
        p \in {TasksPath}
                \cup {TaskPathOf(id, suffix) :
                         id \in {<<"1">>, EditId, ToggleId},
                         suffix \in {<<>>, EditSuffix, ToggleSuffix}}}

\* a body that is not form data, and a valid form
RouteBodies ==
    {[ok |-> FALSE, message |-> ParseErrorMessage],
     [ok |-> TRUE, form |-> MkData({<<" ", "b", " ">>}, {<<"d">>}, {Low})]}

ReceiveRouteRequest == ReceiveRequestFrom(RouteRequests)

ReadRouteRequestBody == ReadRequestBodyFrom(RouteBodies)

NextRoutes ==
    \/ ReceiveRouteRequest
    \/ ReadRouteRequestBody

SpecRoutes == Init /\ [][NextRoutes]_vars

(***************************************************************************)
(* Requests handled concurrently.  Deno.serve calls handleRequest for each *)
(* request when it arrives, without waiting for the answers of the         *)
(* requests before it.  A handler runs until it returns or reaches an      *)
(* await: createTaskHandler and updateTaskHandler are suspended at await   *)
(* parseFormData(req) and are resumed, in any order, when the body was     *)
(* read; the other handlers of the API return without an await.  What      *)
(* serveFile answers is taken as in serveStaticFile above.  inflight holds *)
(* the suspended handlers, last the requests answered so far.              *)
(***************************************************************************)
\* the handlers that are suspended, in the order their requests arrived
Suspended == IF Has(inflight, "suspended") THEN inflight.suspended ELSE <<>>

Suspend(handlers) ==
    IF handlers = <<>> THEN Idle
    ELSE [handler |-> "suspended", suspended |-> handlers]

\* history: the requests answered so far with their answers, in the order
\* they were answered
Log == IF Has(last, "log") THEN last.log ELSE <<>>

\* history: the repository as the constructor left it
Initial ==
    IF Has(last, "initial") THEN last.initial
    ELSE [store |-> taskStore, nextId |-> nextId]

\* a bug: the repository call of a resumed handler works on the tasks that
\* were stored when its request arrived
StoreAtArrival(atArrival, atCall) == atArrival

\* the tasks the repository call of a resumed handler works on:
\* taskService.updateTask and taskService.createTask read this.taskStore
\* when they are called, and the handler holds nothing of the store across
\* the await
StoreAtCall(atArrival, atCall) == atCall

\* the requests that arrive: one of every kind of answer, the by-id
\* requests for the seed task 1
ConcurrentRequests ==
    {req \in Requests :
        /\ req.status = Null
        /\ \/ req.method = "OPTIONS" /\ req.path = TasksPath
           \/ req.method = "GET"
                 /\ req.path \in {RootPath, ApiOtherPath, TasksPath,
                                  TaskPathOf(<<"1">>, <<>>)}
           \/ req.method = "POST" /\ req.path = TasksPath
           \/ req.method = "PUT"
                 /\ req.path \in {TaskPathOf(<<"1">>, <<>>),
                                  TaskPathOf(<<"1">>, ToggleSuffix)}
           \/ req.method = "DELETE"
                 /\ req.path = TaskPathOf(<<"1">>, <<>>)}

\* the bodies that are read: not form data, a form without fields, a form
\* with a title, a description and a priority
ConcurrentBodies ==
    {body \in HttpBodies :
        \/ ~body.ok
        \/ body.form = NoFields
        \/ body.form = MkData({<<" ", "b", " ">>}, {<<"d">>}, {Low})}

\* handleRequest(req) is called: the handler the request is routed to runs
\* to its first await or to its return
RequestArrives ==
    /\ steps < MaxArrivals
    /\ \E req \in ConcurrentRequests :
         \E route \in {handleRequest(req.path, req.method)} :
             LET handler == route @@ [req |-> req, number |-> steps + 1,
                                      arrived |-> Len(Log)]
             IN  IF ReadsBody(route)
                 THEN /\ inflight' = Suspend(Append(Suspended,
                                         handler @@ [seen |-> taskStore]))
                      /\ last' = [op |-> "await", log |-> Log,
                                  initial |-> Initial]
                      /\ UNCHANGED <<taskStore, nextId, now, everStored>>
                 ELSE /\ \E outcome \in
                             IF route.handler = "serveStaticFile"
                             THEN ServeFileOutcomes ELSE {"none"} :
                           \E h \in {AnswerOf(route, req, outcome,
                                              taskStore)} :
                               /\ taskStore' = h.store
                               /\ everStored' =
                                      everStored \cup StoredIds(h.store)
                               /\ last' =
                                      [op |-> route.handler,
                                       log |-> Append(Log,
                                                  handler
                                                    @@ [outcome |-> outcome]
                                                    @@ Report(h)),
                                       initial |-> Initial]
                      /\ UNCHANGED <<nextId, now, inflight>>
    /\ steps' = steps + 1

\* the sequence s without its element i
Without(s, i) == SubSeq(s, 1, i - 1) \o SubSeq(s, i + 1, Len(s))

\* await parseFormData(req) of request number n returns or throws: the
\* handler is resumed and runs to its return
RequestBodyRead(n) ==
    \E i \in 1..Len(Suspended) :
        LET handler == Suspended[i]
            create == handler.handler = "createTaskHandler"
            store == StoreAtCall(handler.seen, taskStore)
        IN  /\ handler.number = n
            /\ \E body \in ConcurrentBodies,
                  d \in (IF create THEN Ticks ELSE {0}) :
                 \E h \in {IF create
                           THEN createTaskHandler(store, nextId, body,
                                                  now + d)
                           ELSE updateTaskHandler(store, nextId, handler.id,
                                                  body)} :
                     /\ taskStore' = h.store
                     /\ nextId' = h.nextId
                     /\ now' = IF Has(h, "call") /\ h.call.op = "createTask"
                               THEN ClockAfter(h.call.res, now + d) ELSE now
                     /\ everStored' = everStored \cup StoredIds(h.store)
                     /\ last' =
                            [op |-> handler.handler,
                             log |-> Append(Log,
                                        [f \in DOMAIN handler \ {"seen"} |->
                                            handler[f]]
                                          @@ [body |-> body, clock |-> now']
                                          @@ Report(h)),
                             initial |-> Initial]
            /\ inflight' = Suspend(Without(Suspended, i))
            /\ UNCHANGED steps

NextConcurrent ==
    \/ RequestArrives
    \/ \E n \in 1..MaxArrivals : RequestBodyRead(n)

SpecConcurrent == Init /\ [][NextConcurrent]_vars

\* the body of every request is read at some time, or the read fails
SpecConcurrentFair ==
    SpecConcurrent /\ \A n \in 1..MaxArrivals : WF_vars(RequestBodyRead(n))

(***************************************************************************)
(* Properties.                                                             *)
(***************************************************************************)
\* the step l made the call op to the repository
IsCall(l, op) == Has(l, "call") /\ l.call.op = op

\* the step l called createTask and a task was returned
Created(l) == IsCall(l, "createTask") /\ ~l.call.res.threw

\* the step l called updateTask and a task was returned
Updated(l) ==
    /\ IsCall(l, "updateTask")
    /\ ~l.call.res.threw
    /\ l.call.res.task # Undefined

AllWhiteSpace(s) == \A k \in 1..Len(s) : s[k] \in WhiteSpace

ValidPriorities == {Low, Medium, High}

\* C1: every create that succeeds returns an id that is not stored and was
\* never stored before (the seed ids included, also after their deletion),
\* and it leaves every stored record in place.
C1_CreateIdIsFresh ==
    [][Created(last') /\ steps' = steps + 1 =>
          /\ last'.call.res.task.id \notin everStored
          /\ last'.call.res.task.id \notin StoredIds(taskStore)
          /\ Len(taskStore') = Len(taskStore) + 1
          /\ \A i \in 1..Len(taskStore) : taskStore'[i] = taskStore[i]]_vars

\* a create succeeded after a seed task was deleted
C1_Witness ==
    /\ Created(last)
    /\ \E s \in SeedIds : s \notin StoredIds(taskStore)
    /\ last.call.res.task.id \notin SeedIds
    /\ MapHas(taskStore, last.call.res.task.id)

\* C2: the title of every stored task is non-empty, not all whitespace and
\* equal to its trimmed form.
C2_TitlesTrimmed ==
    \A i \in 1..Len(taskStore) :
        /\ taskStore[i].title # <<>>
        /\ ~AllWhiteSpace(taskStore[i].title)
        /\ Head(taskStore[i].title) \notin WhiteSpace
        /\ taskStore[i].title[Len(taskStore[i].title)] \notin WhiteSpace

\* an update stored a title that was submitted with surrounding blanks
C2_Witness ==
    /\ Updated(last)
    /\ Has(last.call.data, "title")
    /\ Head(last.call.data.title) \in WhiteSpace
    /\ MapGet(taskStore, last.id).title = <<"b">>

\* C3: the priority of every stored task is one of low, medium, high.
C3_PrioritiesValid ==
    \A i \in 1..Len(taskStore) : taskStore[i].priority \in ValidPriorities

\* a PUT for a stored task submitted the priority "urgent"
C3_Witness ==
    /\ last.op = "updateTaskHandler"
    /\ IsCall(last, "updateTask")
    /\ MapHas(taskStore, last.id)
    /\ Has(last.call.data, "priority")
    /\ last.call.data.priority = Urgent
    /\ ~Has(last.call.data, "title")
    /\ last.resp.status = 400

\* C4: right after a create that succeeded, getTaskById of the returned id
\* yields a record equal to the returned one in every field.
C4_GetAfterCreate ==
    Created(last) =>
        GetTaskById(taskStore, last.call.res.task.id) = last.call.res.task

\* a POST created a task
C4_Witness ==
    /\ last.op = "createTaskHandler"
    /\ Created(last)
    /\ last.call.res.task.title = <<"b">>
    /\ MapHas(taskStore, last.call.res.task.id)

\* C5: createTask throws a validation error when the title is missing,
\* empty or all whitespace, and when a priority is supplied that is not
\* one of low, medium, high, whatever the other fields are.
C5_CreateRejects ==
    IsCall(last, "createTask")
    /\ \/ ~Has(last.call.data, "title")
       \/ AllWhiteSpace(last.call.data.title)
       \/ /\ Has(last.call.data, "priority")
          /\ last.call.data.priority \notin ValidPriorities
    => /\ last.call.res.threw
       /\ StartsWith(last.call.res.message, InvalidPrefix)

\* createTask was called with a blank title and all else valid
C5_Witness ==
    /\ last.op = "createTask"
    /\ Has(last.call.data, "title")
    /\ last.call.data.title = <<" ">>
    /\ Has(last.call.data, "description")
    /\ Has(last.call.data, "priority")
    /\ last.call.data.priority \in ValidPriorities
    /\ last.call.res.threw

C7_EmptyUpdateIsIdentity ==
    [][/\ last'.op = "updateTaskHandler"
       /\ steps' = steps + 1
       /\ last'.body.ok
       /\ DOMAIN last'.body.form = {}
       /\ MapHas(taskStore, last'.id)
       => /\ last'.resp.status = 200
          /\ Updated(last')
          /\ last'.call.res.task = MapGet(taskStore, last'.id)
          /\ last'.resp.body = TaskToHtml(MapGet(taskStore, last'.id))
          /\ taskStore' = taskStore
          /\ nextId' = nextId]_vars

\* a PUT with an empty form was answered for a stored task
C7_Witness ==
    /\ last.op = "updateTaskHandler"
    /\ last.body.ok
    /\ DOMAIN last.body.form = {}
    /\ MapHas(taskStore, last.id)
    /\ last.resp.status = 200

UpdatableFields == {"title", "description", "priority"}

\* C8: an update that succeeds changes no field but the supplied ones among
\* title, description and priority: id, completed, createdAt and every
\* field that was not supplied stay, and the record keeps all its fields.
C8_UpdateFrame ==
    [][Updated(last') /\ steps' = steps + 1 =>
          LET old == MapGet(taskStore, last'.call.id)
              new == MapGet(taskStore', last'.call.id)
          IN  /\ old # Undefined
              /\ new = last'.call.res.task
              /\ DOMAIN new = DOMAIN old
              /\ new.id = old.id
              /\ new.completed = old.completed
              /\ new.createdAt = old.createdAt
              /\ \A f \in UpdatableFields :
                     ~Has(last'.call.data, f) => new[f] = old[f]]_vars

\* an update that supplied only the priority changed seed task "1"
C8_Witness ==
    /\ Updated(last)
    /\ DOMAIN last.call.data = {"priority"}
    /\ last.call.id = <<"1">>
    /\ MapGet(taskStore, <<"1">>).priority = High
    /\ MapGet(taskStore, <<"1">>).title = SeedTitle1

\* C9: a toggle of a stored task succeeds and shows the negated completed
\* value; a second toggle of the same id right after the first shows the
\* negation of what the first showed, that is the original value.
C9_ToggleInvolution ==
    [][/\ last'.op = "toggleTaskHandler"
       /\ steps' = steps + 1
       /\ MapHas(taskStore, last'.id)
       => /\ last'.resp.status = 200
          /\ last'.call.res.task.completed
                 = ~MapGet(taskStore, last'.id).completed
          /\ last'.resp.body.checked = last'.call.res.task.completed
          /\ MapGet(taskStore', last'.id) = last'.call.res.task
          /\ last.op = "toggleTaskHandler" /\ last.id = last'.id
             => /\ last.resp.status = 200
                /\ last'.resp.body.checked = ~last.resp.body.checked
                /\ last'.call.res.task
                       = [last.call.res.task EXCEPT !.completed = ~@]]_vars

\* seed task "2", completed at the start, was toggled twice
C9_Witness ==
    /\ steps = 2
    /\ last.op = "toggleTaskHandler"
    /\ last.id = <<"2">>
    /\ last.resp.status = 200
    /\ last.resp.body.checked
    /\ MapGet(taskStore, <<"2">>).completed

\* C10: deleteTask returns true exactly when the id is stored and then
\* removes that task only; otherwise it returns false and the store stays;
\* a second delete of the same id right after a successful one returns
\* false.
C10_Delete ==
    [][IsCall(last', "deleteTask") /\ steps' = steps + 1 =>
          LET id == last'.call.id
          IN  /\ last'.call.res.deleted = MapHas(taskStore, id)
              /\ StoredIds(taskStore') = StoredIds(taskStore) \ {id}
              /\ \A j \in StoredIds(taskStore') :
                     MapGet(taskStore', j) = MapGet(taskStore, j)
              /\ ~last'.call.res.deleted => taskStore' = taskStore
              /\ IsCall(last, "deleteTask") /\ last.call.id = id
                 /\ last.call.res.deleted
                 => ~last'.call.res.deleted
              /\ last'.op = "deleteTaskHandler"
                 => last'.resp.status
                        = IF last'.call.res.deleted THEN 204 ELSE 404]_vars

\* a seed task was deleted twice in a row
C10_Witness ==
    /\ steps = 2
    /\ IsCall(last, "deleteTask")
    /\ ~last.call.res.deleted
    /\ last.call.id \in SeedIds
    /\ Len(taskStore) = 2

(***************************************************************************)
(* Properties of the server behind handleRequest (SpecHttp).               *)
(***************************************************************************)
StatusArgs == {Null, StatusActive, StatusCompleted}

\* what getAllTasks returns in the current state
List(status) == GetAllTasks(taskStore, status).tasks

AllDistinctCreatedAt ==
    \A i, j \in 1..Len(taskStore) :
        i # j => taskStore[i].createdAt # taskStore[j].createdAt

\* C11: in every reachable state the completed list and the active list
\* have no id in common, and together they hold exactly the ids of the
\* unfiltered list, each id once.
C11_FilterPartition ==
    LET all == List(Null)
        completed == List(StatusCompleted)
        active == List(StatusActive)
    IN  /\ StoredIds(completed) \cap StoredIds(active) = {}
        /\ StoredIds(completed) \cup StoredIds(active) = StoredIds(all)
        /\ Len(completed) + Len(active) = Len(all)
        /\ Cardinality(StoredIds(all)) = Len(all)
        /\ Cardinality(StoredIds(completed)) = Len(completed)
        /\ Cardinality(StoredIds(active)) = Len(active)
        /\ StoredIds(all) = StoredIds(taskStore)

\* GET /api/tasks?status=completed listed two tasks of a store that also
\* holds active ones
C11_Witness ==
    /\ last.op = "getTasksHandler"
    /\ last.req.status = StatusCompleted
    /\ Len(last.call.res.tasks) = 2
    /\ Len(List(StatusActive)) >= 1

\* C12: in every reachable state each list, filtered or not, is ordered by
\* createdAt, newest first: no result is older than the one after it, and
\* the order is strict when all stored createdAt values differ.
C12_ListNewestFirst ==
    \A status \in StatusArgs :
        LET tasks == List(status)
        IN  /\ \A i \in 1..(Len(tasks) - 1) :
                   tasks[i].createdAt >= tasks[i + 1].createdAt
            /\ AllDistinctCreatedAt =>
                   \A i \in 1..(Len(tasks) - 1) :
                       tasks[i].createdAt > tasks[i + 1].createdAt

\* GET /api/tasks listed four tasks of distinct createdAt, the one created
\* by a POST first and the seed of the day before last
C12_Witness ==
    /\ last.op = "getTasksHandler"
    /\ last.req.status = Null
    /\ AllDistinctCreatedAt
    /\ Len(last.call.res.tasks) = 4
    /\ last.call.res.tasks[1].id = <<"4">>
    /\ last.call.res.tasks[4].id = <<"2">>

ReadHandlers ==
    {"getTasksHandler", "getTaskByIdHandler", "getTaskEditFormHandler"}

\* C13: getAllTasks and getTaskById, and the endpoints GET /api/tasks,
\* GET /api/tasks/:id and GET /api/tasks/:id/edit, leave the store and the
\* id counter as they were, whatever the state and the arguments.
C13_ReadsDoNotMutate ==
    \/ last.op \in ReadHandlers
    \/ IsCall(last, "getAllTasks")
    \/ IsCall(last, "getTaskById")
    => /\ taskStore = last.before.store
       /\ nextId = last.before.nextId

\* GET /api/tasks?status=active was answered with a list that is shorter
\* than the store and ordered differently
C13_Witness ==
    /\ last.op = "getTasksHandler"
    /\ last.req.status = StatusActive
    /\ Len(last.call.res.tasks) = 2
    /\ last.call.res.tasks[1].id # taskStore[1].id
    /\ Len(taskStore) = 3

\* the identifier segment of a path of the shape /api/tasks/<token><suffix>
\* whose token is not empty and has no slash; the empty string for every
\* other path
TokenOf(path, suffix) ==
    LET prefix == TasksPath \o <<"/">>
        n == Len(path) - Len(prefix) - Len(suffix)
    IN  IF /\ n >= 1
           /\ SubSeq(path, 1, Len(prefix)) = prefix
           /\ SubSeq(path, Len(prefix) + n + 1, Len(path)) = suffix
           /\ \A i \in (Len(prefix) + 1)..(Len(prefix) + n) : path[i] # "/"
        THEN SubSeq(path, Len(prefix) + 1, Len(prefix) + n)
        ELSE <<>>

\* the by-id rows of the route table: method, suffix and handler
ByIdRows ==
    {<<"GET", <<>>, "getTaskByIdHandler">>,
     <<"PUT", <<>>, "updateTaskHandler">>,
     <<"DELETE", <<>>, "deleteTaskHandler">>,
     <<"GET", EditSuffix, "getTaskEditFormHandler">>,
     <<"PUT", ToggleSuffix, "toggleTaskHandler">>}

\* the by-id rows a request matches
RowsOf(req) ==
    {row \in ByIdRows :
        row[1] = req.method /\ TokenOf(req.path, row[2]) # <<>>}

\* the request r is for a by-id endpoint
IsByIdRequest(req) == RowsOf(req) # {}

\* the id a by-id request addresses
IdOf(req) == TokenOf(req.path, (CHOOSE row \in RowsOf(req) : TRUE)[2])

\* the last step answered a request
Answered == Has(last, "resp") /\ Has(last, "req")

\* the last step answered a by-id request whose id was not stored
AnsweredNotStored ==
    /\ Answered
    /\ IsByIdRequest(last.req)
    /\ ~MapHas(last.before.store, IdOf(last.req))

\* the body of the request could not be parsed as form data
BodyUnparsed == Has(last, "body") /\ ~last.body.ok

StateAsBefore ==
    taskStore = last.before.store /\ nextId = last.before.nextId

\* C14 as claimed: a request to a by-id endpoint whose id is not stored is
\* answered with 404, whatever its body, and the store stays as it was.
C14_NotStoredIs404 ==
    AnsweredNotStored => last.resp.status = 404 /\ StateAsBefore

\* C14 as amended: a request to a by-id endpoint whose id is not stored
\* leaves the store as it was and is answered with 404, except a PUT
\* /api/tasks/:id that reaches updateTaskHandler with a body that is not
\* form data: the body is parsed before the id is looked up, and the
\* answer is 500.
C14_NotStoredIs404UnlessUnparsed ==
    AnsweredNotStored =>
        /\ StateAsBefore
        /\ last.resp.status = IF BodyUnparsed THEN 500 ELSE 404
        /\ BodyUnparsed => last.op = "updateTaskHandler"

\* PUT /api/tasks/9 with a form of valid fields was answered with 404
C14_Witness ==
    /\ last.op = "updateTaskHandler"
    /\ last.id = NeverStoredId
    /\ last.body.ok
    /\ DOMAIN last.body.form = {"title", "description", "priority"}
    /\ last.resp.status = 404
    /\ StateAsBefore

\* the ids whose DELETE was answered with 204 before the last step: those
\* that were keys of the store once and were not when the step began (only
\* deleteTask removes a key, and only deleteTaskHandler calls it)
DeletedBefore == last.before.everStored \ StoredIds(last.before.store)

AnsweredDeleted ==
    /\ Answered
    /\ IsByIdRequest(last.req)
    /\ IdOf(last.req) \in DeletedBefore

\* C15 as claimed: once DELETE /api/tasks/:id was answered with 204, every
\* later request to a by-id endpoint for that id is answered with 404,
\* whatever was created, updated, toggled or deleted in between.
C15_DeletedStays404 ==
    AnsweredDeleted => last.resp.status = 404

\* C15 as amended: once DELETE /api/tasks/:id was answered with 204, the
\* id is never stored again, and every later request to a by-id endpoint
\* for it is answered with 404, except a PUT /api/tasks/:id whose body is
\* not form data, which is answered with 500.
C15_DeletedStays404UnlessUnparsed ==
    /\ AnsweredDeleted =>
           /\ last.resp.status = IF BodyUnparsed THEN 500 ELSE 404
           /\ BodyUnparsed => last.op = "updateTaskHandler"
    /\ Has(last, "before") =>
           DeletedBefore \cap StoredIds(taskStore) = {}

\* GET /api/tasks/1 was answered with 404 after seed task "1" was deleted
\* and a task was created
C15_Witness ==
    /\ last.op = "getTaskByIdHandler"
    /\ last.id = <<"1">>
    /\ last.resp.status = 404
    /\ <<"1">> \in DeletedBefore
    /\ MapHas(taskStore, <<"4">>)

\* the title of the form is missing, empty or blank
FormTitleBlank(form) == ~Has(form, "title") \/ AllWhiteSpace(form.title)

\* the form has a priority that is not one of low, medium, high
FormPriorityOutside(form) ==
    Has(form, "priority") /\ form.priority \notin ValidPriorities

\* the message of the rule the fields of a POST violate, the rule on the
\* title first
CreateRuleMessage(form) ==
    IF FormTitleBlank(form) THEN TitleRequiredMessage ELSE PriorityMessage

\* the message of the rule the fields of a PUT violate
UpdateRuleMessage(form) ==
    IF Has(form, "title") /\ AllWhiteSpace(form.title)
    THEN TitleEmptyMessage ELSE PriorityMessage

\* the answer is the HTML alert with the validation message, status 400
IsValidationAnswer(resp, message) ==
    /\ resp.status = 400
    /\ resp.headers["Content-Type"] = "text/html"
    /\ resp.body.fragment = "alert"
    /\ resp.body.message = message
    /\ StartsWith(resp.body.message, InvalidPrefix)

\* the last step answered a POST /api/tasks whose form was parsed
AnsweredCreate == last.op = "createTaskHandler" /\ last.body.ok

\* the last step answered a PUT /api/tasks/:id for a stored id whose form
\* was parsed
AnsweredUpdateOfStored ==
    /\ last.op = "updateTaskHandler"
    /\ last.body.ok
    /\ MapHas(last.before.store, last.id)

UpdateViolatesRule(form) ==
    (Has(form, "title") /\ AllWhiteSpace(form.title))
        \/ FormPriorityOutside(form)

UnexpectedMessages == {CreateUnexpectedMessage, UpdateUnexpectedMessage}

\* the pieces of a string
Pieces(s) == {s[i] : i \in 1..Len(s)}

\* C17: a POST /api/tasks or PUT /api/tasks/:id whose body is not form data
\* is answered with 500 and the fixed message of the handler, which has no
\* part of the message of the error; the answer differs from every
\* validation answer in its status, and the store stays as it was.
C17_UnparsedIs500 ==
    last.op \in {"createTaskHandler", "updateTaskHandler"} /\ BodyUnparsed
    => /\ last.resp.status = 500
       /\ last.resp.status # 400
       /\ last.resp.body.fragment = "alert"
       /\ last.resp.body.message =
              IF last.op = "createTaskHandler"
              THEN CreateUnexpectedMessage ELSE UpdateUnexpectedMessage
       /\ last.resp.body.message \in UnexpectedMessages
       /\ Pieces(last.resp.body.message) \cap Pieces(last.body.message) = {}
       /\ ~Has(last, "call")
       /\ StateAsBefore

\* PUT /api/tasks/1 with a body that is not form data was answered with
\* 500 and seed task "1" is as it was
C17_Witness ==
    /\ last.op = "updateTaskHandler"
    /\ last.id = <<"1">>
    /\ BodyUnparsed
    /\ last.resp.status = 500
    /\ MapHas(taskStore, <<"1">>)
    /\ MapGet(taskStore, <<"1">>).title = SeedTitle1

\* the handler of the by-id row a request matches
RowHandlerOf(req) == (CHOOSE row \in RowsOf(req) : TRUE)[3]

\* C18 as claimed: a request whose method and path have the shape of a
\* by-id row, with any token that is not empty and has no slash as the
\* identifier segment, is given to the handler of the row with that token
\* as the id.
C18_AnyTokenIsRouted ==
    Has(last, "req") /\ IsByIdRequest(last.req) =>
        /\ last.handler = RowHandlerOf(last.req)
        /\ Has(last, "id")
        /\ last.id = IdOf(last.req)

\* the path is /api or begins with /api/
UnderApi(path) == path = ApiPrefix \/ HasPrefix(path, ApiPrefix \o <<"/">>)

\* the request matches a row of the route table
MatchesRow(req) ==
    \/ req.path = TasksPath /\ req.method \in {"GET", "POST"}
    \/ IsByIdRequest(req)

\* C19: a request under /api/ that is not OPTIONS and matches no row of the
\* route table is answered with 404 and the JSON error "API Endpoint Not
\* Found", and the store stays as it was.
C19_UnmatchedIs404Json ==
    /\ Answered
    /\ last.req.method # "OPTIONS"
    /\ UnderApi(last.req.path)
    /\ ~MatchesRow(last.req)
    => /\ last.resp.status = 404
       /\ last.resp.headers["Content-Type"] = "application/json"
       /\ last.resp.body = [json |-> [error |-> ApiEndpointNotFoundMessage]]
       /\ DOMAIN DEFAULT_CORS_HEADERS \subseteq DOMAIN last.resp.headers
       /\ StateAsBefore

\* POST /api/tasks/1 was answered with 404 while task "1" is stored
C19_Witness ==
    /\ Answered
    /\ last.req.method = "POST"
    /\ last.req.path = TaskPathOf(<<"1">>, <<>>)
    /\ last.resp.status = 404
    /\ MapHas(taskStore, <<"1">>)

\* the path is / or is neither /api nor begins with /api/
OutsideApi(path) == path = RootPath \/ ~UnderApi(path)

\* C20 as claimed: a request that is not OPTIONS and whose path is outside
\* /api/ is answered by serveStaticFile and never by handleApiRequest, the
\* paths that only share the prefix (/apidocs) included.
C20_OutsideApiIsStatic ==
    /\ Has(last, "req")
    /\ last.req.method # "OPTIONS"
    /\ OutsideApi(last.req.path)
    => last.handler = "serveStaticFile"

CorsHeaders ==
    {"Access-Control-Allow-Origin", "Access-Control-Allow-Methods",
     "Access-Control-Allow-Headers"}

\* the response carries the three cross-origin headers
HasCorsHeaders(resp) ==
    /\ CorsHeaders \subseteq DOMAIN resp.headers
    /\ resp.headers["Access-Control-Allow-Origin"] = "*"
    /\ resp.headers["Access-Control-Allow-Methods"]
           = "GET, POST, PUT, DELETE, OPTIONS"
    /\ resp.headers["Access-Control-Allow-Headers"] = "Content-Type"

\* C21: a request with method OPTIONS is answered before it is routed,
\* whatever its path and whatever the store holds, with 204, no body and
\* the cross-origin headers (and no other header), and the store stays as
\* it was.
C21_PreflightIs204 ==
    Has(last, "req") /\ last.req.method = "OPTIONS" =>
        /\ Has(last, "resp")
        /\ last.handler = "preflight"
        /\ last.resp.status = 204
        /\ last.resp.body = Null
        /\ HasCorsHeaders(last.resp)
        /\ DOMAIN last.resp.headers = CorsHeaders
        /\ ~Has(last, "call")
        /\ StateAsBefore

\* OPTIONS / was answered with 204 after a task was deleted
C21_Witness ==
    /\ Answered
    /\ last.req.method = "OPTIONS"
    /\ last.req.path = RootPath
    /\ last.resp.status = 204
    /\ Len(taskStore) = 2

\* C22: every response of handleRequest carries the three cross-origin
\* headers, Access-Control-Allow-Origin "*", Access-Control-Allow-Methods
\* "GET, POST, PUT, DELETE, OPTIONS" and Access-Control-Allow-Headers
\* "Content-Type", whoever answered: a handler that succeeded, a validation
\* error, a not-found, an unexpected error, the pre-flight, a static file.
C22_EveryResponseHasCors ==
    Has(last, "resp") => HasCorsHeaders(last.resp)

\* a static file was not found, and the plain-text 404 carries the headers
C22_Witness ==
    /\ Answered
    /\ last.handler = "serveStaticFile"
    /\ last.resp.status = 404
    /\ HasCorsHeaders(last.resp)

\* the last step answered a request routed by handleApiRequest with an
\* error status
AnsweredApiError ==
    /\ Answered
    /\ last.handler \notin {"preflight", "serveStaticFile"}
    /\ last.resp.status >= 400

\* the body is the JSON envelope {"error": message}
IsJsonError(resp) ==
    /\ resp.headers["Content-Type"] = "application/json"
    /\ DOMAIN resp.body = {"json"}
    /\ DOMAIN resp.body.json = {"error"}

\* the body is the HTML alert
IsHtmlError(resp) ==
    /\ resp.headers["Content-Type"] = "text/html"
    /\ Has(resp.body, "fragment")
    /\ resp.body.fragment = "alert"

\* C23: an error response of the API is the JSON envelope {"error":
\* message} with Content-Type application/json exactly when no route
\* matched or a delete found no task; every other error response (not found
\* on get, edit, update and toggle, a validation failure, an unexpected
\* failure) is the HTML alert with Content-Type text/html.
C23_JsonOnlyForRouteAndDelete ==
    AnsweredApiError =>
        IF last.handler \in {"none", "deleteTaskHandler"}
        THEN /\ IsJsonError(last.resp)
             /\ last.resp.status = 404
             /\ last.resp.body.json.error
                    = (IF last.handler = "none"
                       THEN ApiEndpointNotFoundMessage
                       ELSE DeleteNotFoundMessage)
        ELSE /\ IsHtmlError(last.resp)
             /\ last.handler \in {"getTaskByIdHandler",
                                   "getTaskEditFormHandler",
                                   "updateTaskHandler", "toggleTaskHandler",
                                   "createTaskHandler"}
             /\ last.resp.status \in {400, 404, 500}

\* a DELETE of an id that is not stored was answered with the JSON error,
\* after an earlier request was answered
C23_Witness ==
    /\ AnsweredApiError
    /\ last.handler = "deleteTaskHandler"
    /\ IsJsonError(last.resp)
    /\ steps >= 2

\* the characters with a meaning in markup, and the entity that stands for
\* each
MarkupChars == {"&", "<", ">", "\"", "'"}

EntityOf(c) ==
    CASE c = "&" -> "&amp;"
      [] c = "<" -> "&lt;"
      [] c = ">" -> "&gt;"
      [] c = "\"" -> "&quot;"
      [] c = "'" -> "&#39;"

NoRawMarkup(s) == \A k \in 1..Len(s) : s[k] \notin MarkupChars

\* out is s with every markup character replaced by its entity
EscapedAs(out, s) ==
    /\ Len(out) = Len(s)
    /\ \A k \in 1..Len(s) :
           out[k] = (IF s[k] \in MarkupChars THEN EntityOf(s[k]) ELSE s[k])

\* the strings interpolated into a fragment of one task or into an alert
InterpolatedInOne(body) ==
    CASE body.fragment = "task" ->
             {body.id, body.togglePut, body.toggleTarget, body.title,
              body.description, body.priority, body.editGet,
              body.editTarget, body.deleteDelete, body.deleteTarget}
      [] body.fragment = "edit-form" ->
             {body.formPut, body.formTarget, body.title, body.description,
              body.priority, body.cancelGet, body.cancelTarget}
      [] body.fragment = "alert" -> {body.message}

\* the strings interpolated into a fragment
Interpolated(body) ==
    IF body.fragment = "tasks"
    THEN UNION {InterpolatedInOne(body.items[i]) :
                   i \in 1..Len(body.items)}
    ELSE InterpolatedInOne(body)

\* C24: no fragment carries one of the characters < > & " ' of a string it
\* interpolates: in every fragment that is answered (a task row, a list of
\* rows, an edit form, an alert) every interpolated string is free of
\* them, and the row and the edit form of every stored task show the
\* title, the description and the id with each such character replaced by
\* its entity.  In particular markup in a title never comes out as markup.
C24_InterpolatedIsEscaped ==
    /\ Has(last, "resp") /\ Has(last.resp.body, "fragment") =>
           \A s \in Interpolated(last.resp.body) : NoRawMarkup(s)
    /\ \A i \in 1..Len(taskStore) :
           \A task \in {taskStore[i]} :
               \A row \in {TaskToHtml(task)}, form \in {TaskEditFormHtml(task)} :
                   /\ EscapedAs(row.title, task.title)
                   /\ EscapedAs(row.description, task.description)
                   /\ EscapedAs(row.id, <<"task-">> \o task.id)
                   /\ EscapedAs(form.title, task.title)
                   /\ EscapedAs(form.description, task.description)
                   /\ \A s \in Interpolated(row) \cup Interpolated(form) :
                          NoRawMarkup(s)

\* a POST whose title is <b> and whose description is &"' created a task
\* that is stored as sent and answered with the entities
C24_Witness ==
    /\ last.op = "createTaskHandler"
    /\ last.resp.status = 200
    /\ last.call.res.task.title = MarkupTitle
    /\ last.resp.body.title = <<"&lt;", "b", "&gt;">>
    /\ last.resp.body.description = <<"&amp;", "&quot;", "&#39;">>
    /\ \E i \in 1..Len(taskStore) : taskStore[i].title = MarkupTitle

\* the stored tasks the value of the query parameter status selects
Selected(store, status) ==
    {i \in 1..Len(store) :
        \/ status \notin {StatusActive, StatusCompleted}
        \/ status = StatusActive /\ store[i].completed = FALSE
        \/ status = StatusCompleted /\ store[i].completed = TRUE}

\* C27: GET /api/tasks is always answered with 200.  Without the query
\* parameter status the answer lists every stored task, with active the
\* tasks that are not completed, with completed the completed ones, and
\* with every other value, the empty string included, every stored task;
\* when no task is selected the answer is the alert that no task was found.
C27_ListIs200 ==
    last.op = "getTasksHandler" =>
        LET store == last.before.store
            selected == Selected(store, last.req.status)
            body == last.resp.body
        IN  /\ last.resp.status = 200
            /\ last.resp.headers["Content-Type"] = "text/html"
            /\ StateAsBefore
            /\ IF selected = {}
               THEN body = NoTasksFoundHtml
               ELSE /\ body.fragment = "tasks"
                    /\ Len(body.items) = Cardinality(selected)
                    /\ \A i \in selected :
                           \E k \in 1..Len(body.items) :
                               body.items[k] = TaskToHtml(store[i])

\* GET /api/tasks?status=done listed both kinds of task, and
\* GET /api/tasks?status= would list them too
C27_Witness ==
    /\ last.op = "getTasksHandler"
    /\ last.req.status = StatusOther
    /\ last.resp.status = 200
    /\ Len(last.resp.body.items) = 3
    /\ \E k \in 1..3 : last.resp.body.items[k].checked
    /\ \E k \in 1..3 : ~last.resp.body.items[k].checked
    /\ Len(List(StatusEmpty)) = 3

\* the last step answered a POST /api/tasks whose form has a title that is
\* not blank and a priority that is absent or one of low, medium, high
AnsweredValidCreate ==
    /\ AnsweredCreate
    /\ ~FormTitleBlank(last.body.form)
    /\ ~FormPriorityOutside(last.body.form)

\* C28: a POST /api/tasks whose title is valid and whose priority is absent
\* or one of low, medium, high is answered with 200 and the task fragment
\* of the new task: the title of the form trimmed, the priority of the form
\* (medium when the form has none), not completed.  Afterwards the store
\* holds the tasks it held before, unchanged, and that one new task under
\* an id that was not stored.
C28_ValidCreateIs200 ==
    AnsweredValidCreate =>
        LET form == last.body.form
            before == last.before.store
            body == last.resp.body
            priority == IF Has(form, "priority") THEN form.priority
                        ELSE Medium
        IN  /\ last.resp.status = 200
            /\ last.resp.headers["Content-Type"] = "text/html"
            /\ body.fragment = "task"
            /\ EscapedAs(body.title, Trim(form.title))
            /\ EscapedAs(body.priority, priority)
            /\ body.checked = FALSE
            /\ Len(taskStore) = Len(before) + 1
            /\ \A i \in 1..Len(before) : taskStore[i] = before[i]
            /\ LET task == taskStore[Len(taskStore)]
               IN  /\ task.id \notin StoredIds(before)
                   /\ task.title = Trim(form.title)
                   /\ task.priority = priority
                   /\ task.completed = FALSE
                   /\ body = TaskToHtml(task)

\* the second POST with the title " b " and the priority low was answered
\* with the fragment of a task titled "b", and the store holds five tasks
C28_Witness ==
    /\ AnsweredValidCreate
    /\ last.body.form.title = <<" ", "b", " ">>
    /\ last.resp.status = 200
    /\ last.resp.body.title = <<"b">>
    /\ last.resp.body.priority = Low
    /\ Len(last.before.store) = 4
    /\ Len(taskStore) = 5

\* the characters of a piece of a fragment
CharsOf(piece) ==
    CASE piece = "/api/tasks/" -> TasksPath \o <<"/">>
      [] piece = "/toggle" -> ToggleSuffix
      [] piece = "/edit" -> EditSuffix
      [] OTHER -> <<piece>>

\* the path an attribute of a fragment carries, character by character
RECURSIVE PathChars(_)
PathChars(pieces) ==
    IF pieces = <<>> THEN <<>>
    ELSE CharsOf(Head(pieces)) \o PathChars(Tail(pieces))

\* the handler and the id a request of a fragment is routed to
RoutedTo(handler, id) == [handler |-> handler, id |-> id]

\* the rows of tasks in the answer of the last step
AnsweredRows ==
    IF ~(Has(last, "resp") /\ Has(last.resp.body, "fragment")) THEN {}
    ELSE IF last.resp.body.fragment = "tasks"
    THEN {last.resp.body.items[k] : k \in 1..Len(last.resp.body.items)}
    ELSE IF last.resp.body.fragment = "task" THEN {last.resp.body}
    ELSE {}

\* the edit forms in the answer of the last step
AnsweredForms ==
    IF Has(last, "resp") /\ Has(last.resp.body, "fragment")
          /\ last.resp.body.fragment = "edit-form"
    THEN {last.resp.body} ELSE {}

\* C29: the row and the edit form of every stored task use the element
\* identifier "task-" followed by the id of the task: it is the id of the
\* root of the row, and the toggle, the edit and the delete trigger, the
\* submission of the edit form and its cancel button all target it; tasks
\* with different ids have different element identifiers.  In every row
\* and every edit form that is answered, the paths of the triggers are
\* routed to the toggle, edit, delete, update and read handlers with the
\* id the element identifier names, and the fragment answered to a by-id
\* request names the id requested.
C29_ElementIdentifier ==
    /\ \A i \in 1..Len(taskStore) :
           \A task \in {taskStore[i]} :
               \A row \in {TaskToHtml(task)}, form \in {TaskEditFormHtml(task)},
                  element \in {<<"task-">> \o task.id},
                  target \in {<<"#task-">> \o task.id} :
                   /\ row.id = element
                   /\ row.toggleTarget = target
                   /\ row.editTarget = target
                   /\ row.deleteTarget = target
                   /\ form.formTarget = target
                   /\ form.cancelTarget = target
    /\ \A i, j \in 1..Len(taskStore) :
           i # j => /\ taskStore[i].id # taskStore[j].id
                    /\ <<"task-">> \o HtmlEscape(taskStore[i].id)
                           # <<"task-">> \o HtmlEscape(taskStore[j].id)
    /\ \A row \in AnsweredRows :
           \A id \in {Tail(row.id)} :
               /\ row.id = <<"task-">> \o id
               /\ Has(last, "id") => id = last.id
               /\ handleRequest(PathChars(row.togglePut), "PUT")
                      = RoutedTo("toggleTaskHandler", id)
               /\ handleRequest(PathChars(row.editGet), "GET")
                      = RoutedTo("getTaskEditFormHandler", id)
               /\ handleRequest(PathChars(row.deleteDelete), "DELETE")
                      = RoutedTo("deleteTaskHandler", id)
    /\ \A form \in AnsweredForms :
           /\ form.formTarget = <<"#task-">> \o last.id
           /\ form.cancelTarget = <<"#task-">> \o last.id
           /\ handleRequest(PathChars(form.formPut), "PUT")
                  = RoutedTo("updateTaskHandler", last.id)
           /\ handleRequest(PathChars(form.cancelGet), "GET")
                  = RoutedTo("getTaskByIdHandler", last.id)

\* GET /api/tasks/4/edit was answered with the edit form of the task that a
\* POST created, and the form targets #task-4
C29_Witness ==
    /\ Answered
    /\ last.handler = "getTaskEditFormHandler"
    /\ last.resp.status = 200
    /\ last.id = <<"4">>
    /\ last.resp.body.formTarget = <<"#task-", "4">>
    /\ Len(taskStore) = 4

\* C30: the priority indicator of the row of every stored task has the
\* variant danger when the priority of the task is high, primary when it is
\* medium and success when it is low, and so has every row that is
\* answered.
C30_BadgeVariant ==
    /\ \A i \in 1..Len(taskStore) :
           \A task \in {taskStore[i]} :
               \A row \in {TaskToHtml(task)} :
                   /\ task.priority = High => row.badgeVariant = "danger"
                   /\ task.priority = Medium => row.badgeVariant = "primary"
                   /\ task.priority = Low => row.badgeVariant = "success"
    /\ \A row \in AnsweredRows :
           /\ row.priority = High => row.badgeVariant = "danger"
           /\ row.priority = Medium => row.badgeVariant = "primary"
           /\ row.priority = Low => row.badgeVariant = "success"

\* a POST without priority was answered with a row of variant primary,
\* and the store holds a task of each priority
C30_Witness ==
    /\ last.op = "createTaskHandler"
    /\ last.resp.status = 200
    /\ last.resp.body.priority = Medium
    /\ last.resp.body.badgeVariant = "primary"
    /\ \A p \in ValidPriorities :
           \E i \in 1..Len(taskStore) : taskStore[i].priority = p

\* the answer a request of the log gets when it is handled alone, from its
\* arrival to its answer, in the state of the repository given
Alone(state, entry) ==
    LET route == handleRequest(entry.req.path, entry.req.method)
    IN  IF route.handler = "createTaskHandler"
        THEN createTaskHandler(state.store, state.nextId, entry.body,
                               entry.clock)
        ELSE IF route.handler = "updateTaskHandler"
        THEN updateTaskHandler(state.store, state.nextId, route.id,
                               entry.body)
        ELSE AnswerOf(route, entry.req, entry.outcome, state.store)
                 @@ [nextId |-> state.nextId]

\* the repository after the requests of log were handled one after the
\* other; same says that each got the answer the log holds
RECURSIVE OneByOne(_, _)
OneByOne(state, log) ==
    IF log = <<>> THEN state
    ELSE LET h == Alone(state, Head(log))
         IN  OneByOne([store |-> h.store, nextId |-> h.nextId,
                       same |-> state.same /\ Has(Head(log), "resp")
                                   /\ h.resp = Head(log).resp],
                      Tail(log))

Sequentially(log) == OneByOne(Initial @@ [same |-> TRUE], log)

\* the last answer is that of an update whose form was parsed
LastIsUpdate ==
    /\ Log # <<>>
    /\ Log[Len(Log)].handler = "updateTaskHandler"
    /\ Log[Len(Log)].body.ok

\* the requests that were answered after the request of the last answer
\* arrived and before that answer
InBetween == (Log[Len(Log)].arrived + 1)..(Len(Log) - 1)

\* C25: in every state that requests handled concurrently reach, the
\* repository is as if the requests answered so far had been handled one
\* after the other in the order of their answers, and each of them got the
\* answer it gets in that sequential execution.  In particular an update
\* works on the task as the requests answered before its repository call
\* left it, those answered after its own request arrived included: it
\* keeps completed and the fields its form does not have, it leaves every
\* other task alone, and it is answered with 404 and stores nothing when
\* the task was deleted.
C25_AsIfOneByOne ==
    /\ LET final == Sequentially(Log)
       IN  final.same /\ final.store = taskStore /\ final.nextId = nextId
    /\ LastIsUpdate =>
           LET update == Log[Len(Log)]
               before == Sequentially(SubSeq(Log, 1, Len(Log) - 1)).store
               old == MapGet(before, update.id)
               new == MapGet(taskStore, update.id)
           IN  /\ IF old = Undefined
                  THEN /\ update.resp.status = 404
                       /\ taskStore = before
                  ELSE /\ new # Undefined
                       /\ new.completed = old.completed
                       /\ \A f \in UpdatableFields \ DOMAIN update.body.form :
                              new[f] = old[f]
                       /\ Len(taskStore) = Len(before)
                       /\ \A i \in 1..Len(before) :
                              before[i].id # update.id =>
                                  taskStore[i] = before[i]
               /\ \A j \in InBetween :
                      (\A k \in (j + 1)..(Len(Log) - 1) :
                           ~Has(Log[k], "id")) =>
                          /\ Log[j].handler = "toggleTaskHandler"
                                /\ Log[j].resp.status = 200 =>
                                 new.completed = Log[j].resp.body.checked
                          /\ Log[j].handler = "deleteTaskHandler"
                                /\ Log[j].resp.status = 204 =>
                                 /\ update.resp.status = 404
                                 /\ new = Undefined

\* a PUT /api/tasks/1 arrived, then a PUT /api/tasks/1/toggle arrived and
\* was answered, then the body of the update was read: the update was
\* answered with 200 and the task is still toggled
C25_Witness ==
    /\ LastIsUpdate
    /\ Log[Len(Log)].resp.status = 200
    /\ Has(Log[Len(Log)].body.form, "title")
    /\ \E j \in InBetween :
           /\ Log[j].handler = "toggleTaskHandler"
           /\ Log[j].resp.status = 200
           /\ j = Len(Log) - 1
           /\ MapGet(taskStore, <<"1">>).completed
                  = Log[j].resp.body.checked
           /\ MapGet(Initial.store, <<"1">>).completed
                  # Log[j].resp.body.checked

\* the answers request number n got
AnswersTo(n) ==
    {k \in 1..Len(Log) : Log[k].number = n /\ Has(Log[k], "resp")}

\* request number n is suspended at the read of its body
IsSuspended(n) ==
    \E i \in 1..Len(Suspended) : Suspended[i].number = n

\* C26: every request passed to handleRequest is answered, once: from its
\* arrival on it has no answer while its handler is suspended at the read
\* of the body and one answer otherwise, never two, and when the read of
\* every body completes or fails it has its one answer at some time and
\* from then on.  A suspended handler can be resumed whatever other
\* requests are suspended or arrive, and every handler that returned left
\* an answer, also when the repository threw or the body was not form data.
C26_AnsweredOnce ==
    /\ \A n \in 1..MaxArrivals :
           (steps >= n) ~> [](Cardinality(AnswersTo(n)) = 1)
    /\ [](\A n \in 1..MaxArrivals :
             /\ Cardinality(AnswersTo(n)) <= 1
             /\ steps >= n =>
                    (AnswersTo(n) = {} <=> IsSuspended(n))
             /\ IsSuspended(n) => ENABLED <<RequestBodyRead(n)>>_vars)
    /\ [](\A k \in 1..Len(Log) :
             Has(Log[k], "resp") /\ Log[k].resp.status \in 200..599)

\* the first request, a POST /api/tasks, was answered after the second,
\* a PUT /api/tasks/1 that arrived later and whose body was not form data
\* (500); the form of the first had no title, and its answer is the 400 of
\* the validation
C26_Witness ==
    /\ Len(Log) = 2
    /\ Log[1].number = 2
    /\ Log[1].handler = "updateTaskHandler"
    /\ ~Log[1].body.ok
    /\ Log[1].resp.status = 500
    /\ Log[2].number = 1
    /\ Log[2].handler = "createTaskHandler"
    /\ Log[2].body.ok
    /\ Log[2].call.res.threw
    /\ Log[2].resp.status = 400
    /\ Cardinality(AnswersTo(1)) = 1
    /\ Suspended = <<>>

\* C31: GET /api/tasks answers the fixed empty-state alert exactly when the
\* status selects no stored task, also when tasks are stored; otherwise it
\* answers one row per selected task, no task missing and none twice, in
\* the order of the list: the rows are those of the tasks getAllTasks
\* returned, in its order, newest first.
C31_EmptyStateOrRows ==
    last.op = "getTasksHandler" =>
        \A store \in {last.before.store}, body \in {last.resp.body},
           tasks \in {last.call.res.tasks} :
            \A selected \in {Selected(store, last.req.status)} :
                /\ body = NoTasksFoundHtml <=> selected = {}
                /\ selected # {} =>
                       /\ body.fragment = "tasks"
                       /\ Len(body.items) = Cardinality(selected)
                       /\ Len(tasks) = Len(body.items)
                       /\ \A k \in 1..Len(tasks) :
                              /\ body.items[k] = TaskToHtml(tasks[k])
                              /\ \E i \in selected : store[i] = tasks[k]
                       /\ {body.items[k].id : k \in 1..Len(tasks)}
                              = {<<"task-">> \o store[i].id : i \in selected}
                       /\ \A k \in 1..(Len(tasks) - 1) :
                              tasks[k].createdAt >= tasks[k + 1].createdAt

\* GET /api/tasks?status=completed was answered with the empty state while
\* three tasks are stored, none of them completed
C31_Witness ==
    /\ last.op = "getTasksHandler"
    /\ last.req.status = StatusCompleted
    /\ last.resp.body = NoTasksFoundHtml
    /\ Len(taskStore) = 3
    /\ \A i \in 1..3 : ~taskStore[i].completed

\* the last step called createTask or updateTask, and the call threw
ValidationFailed ==
    /\ Has(last, "call")
    /\ last.call.op \in {"createTask", "updateTask"}
    /\ last.call.res.threw

\* C32: a createTask or updateTask that throws on its validation leaves the
\* repository as it was: the stored tasks, their order and the id counter.
\* The id of a task that is created is the counter as it was before the
\* call, so the create after a failed call gets the id it would have got
\* without it.
C32_FailedValidationChangesNothing ==
    /\ ValidationFailed =>
           /\ StateAsBefore
           /\ everStored = last.before.everStored
           /\ StartsWith(last.call.res.message, InvalidPrefix)
    /\ Created(last) =>
           /\ last.call.res.task.id = NumberToString(last.before.nextId)
           /\ nextId = last.before.nextId + 1

\* after a POST created task 4, a PUT /api/tasks/4 with a blank title threw
\* and left the four tasks and the counter 5 as they were
C32_Witness ==
    /\ ValidationFailed
    /\ last.call.op = "updateTask"
    /\ last.call.res.message = TitleEmptyMessage
    /\ last.id = <<"4">>
    /\ Len(taskStore) = 4
    /\ nextId = 5
    /\ taskStore = last.before.store

\* the operations of the repository that are addressed to one id
ByIdCalls == {"updateTask", "toggleTaskCompletion", "deleteTask"}

\* C33: an update, a toggle or a delete, called through its endpoint,
\* leaves the record of every stored id other than the one it is addressed
\* to as it was and brings no record of another id into the store; a create
\* leaves every record that was stored as it was and where it was.
C33_OtherRecordsUnchanged ==
    Has(last, "call") /\ Has(last, "before") =>
        \A before \in {last.before.store} :
            /\ last.call.op \in ByIdCalls =>
                   /\ \A i \in 1..Len(before) :
                          before[i].id # last.call.id =>
                              \E j \in 1..Len(taskStore) :
                                  taskStore[j] = before[i]
                   /\ \A j \in 1..Len(taskStore) :
                          taskStore[j].id # last.call.id =>
                              \E i \in 1..Len(before) :
                                  before[i] = taskStore[j]
            /\ last.call.op = "createTask" =>
                   /\ Len(taskStore) >= Len(before)
                   /\ \A i \in 1..Len(before) : taskStore[i] = before[i]

\* DELETE /api/tasks/1 removed the first of four stored tasks, and the
\* other three, the one a POST created among them, are stored as before
C33_Witness ==
    /\ IsCall(last, "deleteTask")
    /\ last.call.id = <<"1">>
    /\ last.call.res.deleted
    /\ Len(last.before.store) = 4
    /\ taskStore = Tail(last.before.store)
    /\ MapHas(taskStore, <<"4">>)

\* the rows of handleApiRequest whose condition the request satisfies
MatchingRows(req) ==
    {k \in 1..Len(RouteRows) : RowMatches(RouteRows[k], req.path, req.method)}

\* the path is /api/tasks/<token><suffix> for a token without a slash
HasSuffix(path, suffix) == TokenOf(path, suffix) # <<>>

\* C34: a method and a path satisfy the condition of at most one row of
\* handleApiRequest, and the handler that answers is that of the row they
\* satisfy, whatever the order of the rows (no handler when they satisfy
\* none).  A path /api/tasks/<token>/edit or /api/tasks/<token>/toggle is
\* not given to the handlers of GET, PUT and DELETE /api/tasks/:id, and
\* /api/tasks/edit and /api/tasks/toggle are given to them with the id
\* edit and toggle.
C34_AtMostOneRow ==
    Has(last, "req") /\ Has(last, "handler") =>
        \A rows \in {MatchingRows(last.req)} :
            /\ Cardinality(rows) <= 1
            /\ \A k \in rows : last.handler = RouteRows[k].handler
            /\ rows = {} => last.handler = "none"
            /\ HasSuffix(last.req.path, EditSuffix)
                  \/ HasSuffix(last.req.path, ToggleSuffix) =>
                   last.handler \notin {"getTaskByIdHandler",
                                        "updateTaskHandler",
                                        "deleteTaskHandler"}
            /\ last.req.path \in {TaskPathOf(EditId, <<>>),
                                  TaskPathOf(ToggleId, <<>>)}
                  /\ last.req.method \in {"GET", "PUT", "DELETE"} =>
                   /\ last.handler
                          = (CASE last.req.method = "GET" ->
                                      "getTaskByIdHandler"
                               [] last.req.method = "PUT" ->
                                      "updateTaskHandler"
                               [] last.req.method = "DELETE" ->
                                      "deleteTaskHandler")
                   /\ last.id = Tail(Tail(SubSeq(last.req.path,
                                                 Len(TasksPath),
                                                 Len(last.req.path))))

\* GET /api/tasks/edit was given to getTaskByIdHandler with the id edit, the
\* only row it satisfies, and answered 404
C34_Witness ==
    /\ Answered
    /\ last.req.method = "GET"
    /\ last.req.path = TaskPathOf(EditId, <<>>)
    /\ last.handler = "getTaskByIdHandler"
    /\ last.id = EditId
    /\ MatchingRows(last.req) = {3}
    /\ last.resp.status = 404

\* C35: the repository as constructed holds three tasks, "1", "2", "3" in
\* this order of insertion, of which only "2" is completed, and its counter
\* is still 4: the three creates of seedInitialTasks passed their id and did
\* not advance it.  The first create that succeeds afterwards, whatever
\* failed or was deleted before, returns the id "4".
C35_SeededThenFour ==
    /\ last.op = "construct" =>
           /\ Len(taskStore) = 3
           /\ [i \in 1..3 |-> taskStore[i].id] = <<<<"1">>, <<"2">>, <<"3">>>>
           /\ [i \in 1..3 |-> taskStore[i].completed] = <<FALSE, TRUE, FALSE>>
           /\ [i \in 1..3 |-> taskStore[i].title]
                  = [i \in 1..3 |-> initialTasksData[i].title]
           /\ nextId = 4
           /\ everStored = {<<"1">>, <<"2">>, <<"3">>}
    /\ Created(last) /\ last.before.everStored = {<<"1">>, <<"2">>, <<"3">>} =>
           /\ last.call.res.task.id = <<"4">>
           /\ last.before.nextId = 4
           /\ nextId = 5

\* the first POST that succeeded stored task "4" behind the three seed tasks
C35_Witness ==
    /\ Created(last)
    /\ last.before.nextId = FirstNextId
    /\ last.before.everStored = {<<"1">>, <<"2">>, <<"3">>}
    /\ last.call.res.task.id = <<"4">>
    /\ Len(taskStore) = 4
    /\ taskStore[4].id = <<"4">>
    /\ [i \in 1..3 |-> taskStore[i].id] = <<<<"1">>, <<"2">>, <<"3">>>>

====
